---- MODULE Spec2Model ----
(***************************************************************************)
(* Job-application form filler: field classification (_analyze_field),     *)
(* file upload with selector fallback (_try_upload_file), CAPTCHA handling *)
(* (AntiBotHandler.handle_captcha), the orchestrator                       *)
(* (SmartApplicationAgent.test_application_flow) and the application       *)
(* history store (_save_application_details).                              *)
(*                                                                         *)
(* Python strings are sequences of one-character strings, so that the      *)
(* substring tests, the f-string formatting of a decision and the          *)
(* split/strip parsing of it are computed as the code computes them.       *)
(* An optional value (Python None, a missing key) is <<>>, a present value *)
(* v is <<v>>.                                                             *)
(***************************************************************************)
EXTENDS Integers, Sequences, FiniteSets, TLC

VARIABLES
    config,          \* self.config: the applicant profile loaded from YAML
    field_info,      \* the argument of a direct call of _analyze_field
    decision,        \* what that call returned (<<>> before it returns)
    lookups,         \* the field names it passed to _get_field_value_from_config
    selectors,       \* _try_upload_file: the selector list it was called with
    locator,         \* what the page does for each of these selectors
    sel_i,           \* number of selectors the for loop has taken so far
    attempts,        \* selectors page.locator was called with, in call order
    attached,        \* selectors whose set_input_files call returned
    upload_result,   \* what _try_upload_file returned (<<>> while it runs)
    page,            \* the CAPTCHA-related elements now on the page
    page_at_call,    \* those that were on it when handle_captcha was called
    cap_pc,          \* where handle_captcha / _handle_manual_captcha stands
    cap_steps,       \* the steps of _handle_manual_captcha that have returned
    detected,        \* the <<kind, selector>> that triggered the manual path
    cap_result,      \* what handle_captcha returned (<<>> while it runs)
    call_raised,     \* a page call made by handle_captcha has raised
    pc,              \* test_application_flow: the statement it stands at
    browser,         \* "none", "open" (launched) or "closed"
    form_fields,     \* the list _get_form_fields returned (<<>>: not yet)
    idx,             \* number of fields the for loop has taken so far
    analysis,        \* the local variable analysis (<<>>: unbound)
    required_fields, \* the name required_fields (<<>>: unbound)
    handled,         \* per field taken: its decision and how executing it went
    flow_result,     \* "running", "returned" or "raised"
    session_failed,  \* a navigation or browser call of the orchestrator raised
    flow_log,        \* the steps the orchestrator has performed, in order
    history_file,    \* data_folder/application_history.json as it is on disk
    history_at_start,\* that file before the first call of _save_application_details
    save_calls,      \* the arguments of the calls of _save_application_details
    save_errors,     \* number of errors logged by line 628
    behavior_settings, \* AntiBotHandler.behavior_settings: the mouse and scroll flags
    hb_pc,           \* where add_human_behavior stands
    hb_ops,          \* the pointer, wheel, wait and sleep calls it has made, in order
    fill_field,      \* _fill_field: the field it was called with
    fill_analysis,   \* the decision text it was called with
    fill_ops,        \* the page calls it has issued
    fill_result,     \* what _fill_field returned (<<>> before it returns)
    dom,             \* _get_form_fields: the controls of the page, in document order
    scan_pc,         \* where the scan is
    scan_i,          \* index of the control the loop of line 322 takes next
    scan_queried,    \* whether page.query_selector_all returned
    scan_fields,     \* the local list fields
    scan_sources,    \* for each entry of fields, the index of its control in dom
    scan_result,     \* what _get_form_fields returned (<<>> before it returns)
    d_page,          \* lines 276-288: the input controls of the page, in document order
    d_pc,            \* where the field loop is
    d_i,             \* number of fields the loop has taken
    d_log            \* per field taken: its decision, the handlers called, the page calls made

classify_vars == <<field_info, decision, lookups>>
upload_vars == <<selectors, locator, sel_i, attempts, attached, upload_result>>
captcha_vars == <<page, page_at_call, cap_pc, cap_steps, detected, cap_result,
                 call_raised>>
flow_vars == <<pc, browser, form_fields, idx, analysis, required_fields, handled,
               flow_result, session_failed, flow_log>>
save_vars == <<history_file, history_at_start, save_calls, save_errors>>
behavior_vars == <<behavior_settings, hb_pc, hb_ops>>
fill_vars == <<fill_field, fill_analysis, fill_ops, fill_result>>
scan_vars == <<dom, scan_pc, scan_i, scan_queried, scan_fields, scan_sources, scan_result>>
dispatch_vars == <<d_page, d_pc, d_i, d_log>>
vars == <<config, classify_vars, upload_vars, captcha_vars, flow_vars, save_vars,
         behavior_vars,
         fill_vars,
         scan_vars,
         dispatch_vars>>

None == <<>>
Some(v) == <<v>>

--------------------------------------------------------------------------
(* String literals of the source, character by character.                  *)

\* the substrings looked for in a field name (lines 215, 520-540)
Key == [
    name |-> <<"n","a","m","e">>,
    email |-> <<"e","m","a","i","l">>,
    phone |-> <<"p","h","o","n","e">>,
    location |-> <<"l","o","c","a","t","i","o","n">>,
    company |-> <<"c","o","m","p","a","n","y">>,
    org |-> <<"o","r","g">>,
    linkedin |-> <<"l","i","n","k","e","d","i","n">>,
    github |-> <<"g","i","t","h","u","b">>,
    portfolio |-> <<"p","o","r","t","f","o","l","i","o">>,
    website |-> <<"w","e","b","s","i","t","e">>,
    comments |-> <<"c","o","m","m","e","n","t","s">>,
    cover |-> <<"c","o","v","e","r">>,
    resume |-> <<"r","e","s","u","m","e">>,
    cv |-> <<"c","v">>]

\* values of the type attribute the code compares with (lines 210-214, 465-470)
Type == [
    hidden |-> <<"h","i","d","d","e","n">>,
    file |-> <<"f","i","l","e">>,
    text |-> <<"t","e","x","t">>,
    select |-> <<"s","e","l","e","c","t">>,
    checkbox |-> <<"c","h","e","c","k","b","o","x">>,
    radio |-> <<"r","a","d","i","o">>,
    Select |-> <<"S","e","l","e","c","t">>,
    email |-> <<"e","m","a","i","l">>]

\* pieces of a decision text and of the formatted values
Tok == [
    value_tag |-> <<"V","A","L","U","E",":">>,
    action_tag |-> <<"A","C","T","I","O","N",":">>,
    NL |-> <<"\n">>,
    SP |-> <<" ">>,
    CommaSp |-> <<","," ">>,
    FILL |-> <<"F","I","L","L">>,
    SKIP |-> <<"S","K","I","P">>,
    UPLOAD |-> <<"U","P","L","O","A","D">>,
    ALERT |-> <<"A","L","E","R","T">>,
    action_fill |-> <<"A","C","T","I","O","N",":"," ","F","I","L","L">>,
    action_upload |-> <<"A","C","T","I","O","N",":"," ","U","P","L","O","A","D">>,
    action_alert |-> <<"A","C","T","I","O","N",":"," ","A","L","E","R","T">>]

\* the decision texts of _analyze_field (lines 211-244); a FILL decision is
\* FillPrefix, the value, and one of the two suffixes
Text == [
    SkipHidden |-> <<"A","C","T","I","O","N",":"," ","S","K","I","P","\n","R","E","A","S",
        "O","N",":"," ","H","i","d","d","e","n"," ","f","i","e","l","d">>,
    Upload |-> <<"A","C","T","I","O","N",":"," ","U","P","L","O","A","D","\n","V","A","L",
        "U","E",":"," ","r","e","s","u","m","e",".","p","d","f","\n","R","E","A","S","O",
        "N",":"," ","R","e","s","u","m","e"," ","u","p","l","o","a","d"," ","f","i","e","l",
        "d">>,
    SkipUnknownFile |-> <<"A","C","T","I","O","N",":"," ","S","K","I","P","\n","R","E","A",
        "S","O","N",":"," ","U","n","k","n","o","w","n"," ","f","i","l","e"," ","u","p","l",
        "o","a","d">>,
    FillPrefix |-> <<"A","C","T","I","O","N",":"," ","F","I","L","L","\n","V","A","L","U",
        "E",":"," ">>,
    RequiredSuffix |-> <<"\n","R","E","A","S","O","N",":"," ","R","e","q","u","i","r","e",
        "d"," ","f","i","e","l","d">>,
    Alert |-> <<"A","C","T","I","O","N",":"," ","A","L","E","R","T","\n","R","E","A","S",
        "O","N",":"," ","R","e","q","u","i","r","e","d"," ","f","i","e","l","d"," ","n","e",
        "e","d","s"," ","v","a","l","u","e">>,
    OptionalSuffix |-> <<"\n","R","E","A","S","O","N",":"," ","O","p","t","i","o","n","a",
        "l"," ","f","i","e","l","d"," ","w","i","t","h"," ","d","a","t","a">>,
    SkipOptional |-> <<"A","C","T","I","O","N",":"," ","S","K","I","P","\n","R","E","A","S",
        "O","N",":"," ","O","p","t","i","o","n","a","l"," ","f","i","e","l","d"," ","w","i",
        "t","h","o","u","t"," ","d","a","t","a">>,
    SkipError |-> <<"A","C","T","I","O","N",":"," ","S","K","I","P","\n","R","E","A","S",
        "O","N",":"," ","E","r","r","o","r"," ","i","n"," ","a","n","a","l","y","s","i","s">>]

\* the fixed parts of the cover letter template (lines 555-568), in order
Letter == <<
    <<"D","e","a","r"," ","H","i","r","i","n","g"," ","M","a","n","a","g","e","r",",","\n",
      "\n","I"," ","a","m"," ","w","r","i","t","i","n","g"," ","t","o"," ","e","x","p","r",
      "e","s","s"," ","m","y"," ","i","n","t","e","r","e","s","t"," ","i","n"," ","t","h",
      "e"," ","p","o","s","i","t","i","o","n","."," ","A","s"," ","a"," ">>,
    <<" ","a","t"," ">>,
    <<","," ","\n","I"," ","h","a","v","e"," ","e","x","t","e","n","s","i","v","e"," ","e",
      "x","p","e","r","i","e","n","c","e"," ","i","n"," ">>,
    <<".","\n","\n","K","e","y"," ","a","c","h","i","e","v","e","m","e","n","t","s",":","\n">>,
    <<"\n","\n","I"," ","a","m"," ","p","a","r","t","i","c","u","l","a","r","l","y"," ","d",
      "r","a","w","n"," ","t","o"," ","t","h","i","s"," ","o","p","p","o","r","t","u","n",
      "i","t","y"," ","b","e","c","a","u","s","e"," ","o","f"," ","m","y"," ","b","a","c",
      "k","g","r","o","u","n","d"," ","i","n"," ">>,
    <<" ","\n","a","n","d"," ">>,
    <<".","\n","\n","B","e","s","t"," ","r","e","g","a","r","d","s",",","\n">> >>

\* name attributes of the form controls used as inputs
Name == [
    full_name |-> <<"f","u","l","l","_","n","a","m","e">>,
    email |-> <<"e","m","a","i","l">>,
    Resume |-> <<"R","e","s","u","m","e">>,
    CV |-> <<"C","V">>,
    attachment |-> <<"a","t","t","a","c","h","m","e","n","t">>,
    referral_source |-> <<"r","e","f","e","r","r","a","l","_","s","o","u","r","c","e">>,
    emergency_contact |-> <<"e","m","e","r","g","e","n","c","y","_","c","o","n","t","a","c",
        "t">>,
    company_name |-> <<"c","o","m","p","a","n","y","_","n","a","m","e">>,
    cover_letter |-> <<"c","o","v","e","r","_","l","e","t","t","e","r">>,
    location |-> <<"l","o","c","a","t","i","o","n">>,
    phone |-> <<"p","h","o","n","e">>,
    organization |-> <<"o","r","g","a","n","i","z","a","t","i","o","n">>,
    linkedin |-> <<"l","i","n","k","e","d","i","n">>,
    github |-> <<"g","i","t","h","u","b">>,
    website |-> <<"w","e","b","s","i","t","e">>,
    comments |-> <<"c","o","m","m","e","n","t","s">>]

\* entries of the complete profile used as input
Val == [
    Ada |-> <<"A","d","a">>,
    Lovelace |-> <<"L","o","v","e","l","a","c","e">>,
    Email |-> <<"a","d","a","@","x",".","i","o">>,
    Phone |-> <<"5","5","5">>,
    City |-> <<"L","o","n","d","o","n">>,
    Country |-> <<"U","K">>,
    Linkedin |-> <<"i","n","/","a","d","a">>,
    Github |-> <<"g","h","/","a","d","a">>,
    Website |-> <<"a","d","a",".","d","e","v">>,
    Position |-> <<"E","n","g","i","n","e","e","r">>,
    Company |-> <<"A","c","m","e">>,
    Resp |-> <<"B","u","i","l","t"," ","X">>,
    Python |-> <<"P","y","t","h","o","n">>,
    Go |-> <<"G","o">>,
    Rust |-> <<"R","u","s","t">>,
    C |-> <<"C">>,
    NLP |-> <<"N","L","P">>,
    AWS |-> <<"A","W","S">>]

--------------------------------------------------------------------------
(* Python string operations.                                               *)

UpperAlpha == <<"A","B","C","D","E","F","G","H","I","J","K","L","M",
    "N","O","P","Q","R","S","T","U","V","W","X","Y","Z">>
LowerAlpha == <<"a","b","c","d","e","f","g","h","i","j","k","l","m",
    "n","o","p","q","r","s","t","u","v","w","x","y","z">>

\* str.lower() on one character
LowerChar(c) ==
    IF \E i \in 1..26 : UpperAlpha[i] = c
    THEN LowerAlpha[CHOOSE i \in 1..26 : UpperAlpha[i] = c]
    ELSE c

\* str.lower()
Lower(s) == [i \in 1..Len(s) |-> LowerChar(s[i])]

\* str.find(sub) + 1: position of the first occurrence of sub in s, 0 if none
IndexOf(sub, s) ==
    LET hits == {i \in 1..(Len(s) - Len(sub) + 1) : SubSeq(s, i, i + Len(sub) - 1) = sub}
    IN IF hits = {} THEN 0 ELSE CHOOSE i \in hits : \A j \in hits : i <= j

\* sub in s
Contains(sub, s) == IndexOf(sub, s) # 0

\* s.split(sep)[0]
SplitFirst(s, sep) ==
    LET i == IndexOf(sep, s)
    IN IF i = 0 THEN s ELSE SubSeq(s, 1, i - 1)

\* s.split(sep)[1], for s that contains sep
SplitSecond(s, sep) ==
    LET i == IndexOf(sep, s)
        rest == SubSeq(s, i + Len(sep), Len(s))
    IN SplitFirst(rest, sep)

Whitespace == {" ", "\n", "\t", "\r"}

\* str.strip()
Strip(s) ==
    LET keep == {i \in 1..Len(s) : s[i] \notin Whitespace}
    IN IF keep = {} THEN <<>>
       ELSE SubSeq(s, CHOOSE i \in keep : \A j \in keep : i <= j,
                      CHOOSE i \in keep : \A j \in keep : i >= j)

\* sep.join(list)
RECURSIVE Join(_, _)
Join(sep, list) ==
    IF list = <<>> THEN <<>>
    ELSE IF Len(list) = 1 THEN list[1]
    ELSE list[1] \o sep \o Join(sep, Tail(list))

\* Python truthiness of an optional string: None and "" are falsy
Truthy(v) == v # None /\ v[1] # <<>>

--------------------------------------------------------------------------
(* The applicant profile (self.config).                                    *)

PIKeys == {"name", "surname", "email", "phone", "city", "country",
           "linkedin", "github", "website"}
ExpKeys == {"position", "company", "key_responsibilities"}
SkillKeys == {"programming_languages", "ai_ml", "cloud_services"}

FullPI == [name |-> Some(Val.Ada), surname |-> Some(Val.Lovelace), email |-> Some(Val.Email),
           phone |-> Some(Val.Phone), city |-> Some(Val.City), country |-> Some(Val.Country),
           linkedin |-> Some(Val.Linkedin), github |-> Some(Val.Github),
           website |-> Some(Val.Website)]
FullExp == [position |-> Some(Val.Position), company |-> Some(Val.Company),
            key_responsibilities |-> Some(<<Val.Resp>>)]
FullSkills == [programming_languages |-> Some(<<Val.Python, Val.Go, Val.Rust, Val.C>>),
               ai_ml |-> Some(<<Val.NLP>>), cloud_services |-> Some(<<Val.AWS>>)]

FullProfile == [personal_information |-> FullPI,
                experience_details |-> Some(<<FullExp>>),
                skills |-> FullSkills]

\* no key at all
AbsentProfile == [personal_information |-> [k \in PIKeys |-> None],
                  experience_details |-> None,
                  skills |-> [k \in SkillKeys |-> None]]

\* a template whose entries were left empty
EmptyProfile == [personal_information |-> [k \in PIKeys |-> Some(<<>>)],
                 experience_details |-> Some(<<>>),
                 skills |-> [k \in SkillKeys |-> Some(<<>>)]]

Profiles ==
    {FullProfile, AbsentProfile, EmptyProfile}
    \cup {[FullProfile EXCEPT !.personal_information[k] = v] :
             k \in PIKeys, v \in {None, Some(<<>>)}}
    \cup {[FullProfile EXCEPT !.experience_details = v] : v \in {None, Some(<<>>)}}
    \cup {[FullProfile EXCEPT !.experience_details = Some(<<[FullExp EXCEPT ![k] = v]>>)] :
             k \in ExpKeys, v \in {None, Some(<<>>)}}
    \cup {[FullProfile EXCEPT !.skills[k] = v] : k \in SkillKeys, v \in {None, Some(<<>>)}}

--------------------------------------------------------------------------
(* Form fields.                                                            *)

FieldNames == {None, Some(<<>>), Some(Name.full_name), Some(Name.email), Some(Name.phone),
               Some(Name.location), Some(Name.company_name), Some(Name.organization),
               Some(Name.linkedin), Some(Name.github), Some(Name.website), Some(Name.comments),
               Some(Name.cover_letter), Some(Name.Resume), Some(Name.CV), Some(Name.attachment),
               Some(Name.referral_source), Some(Name.emergency_contact)}
FieldTypes == {None, Some(Type.text), Some(Type.hidden), Some(Type.file), Some(Type.select),
               Some(Type.checkbox)}
Fields == [name : FieldNames, type : FieldTypes, required : BOOLEAN]

--------------------------------------------------------------------------
(* Profile lookup.  A KeyError, IndexError or AttributeError raised inside *)
(* _get_field_value_from_config is caught there and turned into None.      *)

\* self.config['personal_information'][k]; None stands for the KeyError
PI(cfg, k) == cfg.personal_information[k]

\* f"{a}{sep}{b}" of two profile entries; a missing one raises
Format2(a, sep, b) == IF a = None \/ b = None THEN None ELSE Some(a[1] \o sep \o b[1])

\* list[0]; None stands for the KeyError (no list) or the IndexError (empty list)
First(list) == IF list = None \/ list[1] = <<>> THEN None ELSE Some(list[1][1])

\* list[:3]
Take3(list) == SubSeq(list, 1, IF Len(list) < 3 THEN Len(list) ELSE 3)

\* dict.get(k, default) on an optional entry
GetOr(entry, default) == IF entry = None THEN default ELSE entry[1]

\* None when the body raises (the exception propagates to the caller)
_generate_cover_letter(cfg) ==
    LET details == GetOr(cfg.experience_details, <<[k \in ExpKeys |-> None]>>)
    IN IF details = <<>> THEN None
       ELSE
       LET experience == details[1]
           position == GetOr(experience.position, <<>>)
           company == GetOr(experience.company, <<>>)
           languages == cfg.skills.programming_languages
           achievements == GetOr(experience.key_responsibilities, << <<>> >>)
           ai_ml == First(cfg.skills.ai_ml)
           cloud == First(cfg.skills.cloud_services)
           signature == Format2(PI(cfg, "name"), Tok.SP, PI(cfg, "surname"))
       IN IF languages = None \/ achievements = <<>> \/ ai_ml = None
             \/ cloud = None \/ signature = None
          THEN None
          ELSE Some(Letter[1] \o position \o Letter[2] \o company \o Letter[3]
                    \o Join(Tok.CommaSp, Take3(languages[1])) \o Letter[4]
                    \o achievements[1] \o Letter[5] \o ai_ml[1] \o Letter[6] \o cloud[1]
                    \o Letter[7] \o signature[1] \o Tok.NL)

\* _get_field_value_from_config with the company/org test of line 528 moved
\* in front of the name test of line 520
_get_field_value_from_config_CompanyFirst(cfg, field_name, field_type) ==
    IF field_name = None THEN None
    ELSE
    LET n == Lower(field_name[1])
    IN IF Contains(Key.company, n) \/ Contains(Key.org, n)
         THEN LET first == First(cfg.experience_details)
              IN IF first = None THEN None ELSE first[1].company
       ELSE IF Contains(Key.name, n)
         THEN Format2(PI(cfg, "name"), Tok.SP, PI(cfg, "surname"))
       ELSE IF Contains(Key.email, n) THEN PI(cfg, "email")
       ELSE IF Contains(Key.phone, n) THEN PI(cfg, "phone")
       ELSE IF Contains(Key.location, n)
         THEN Format2(PI(cfg, "city"), Tok.CommaSp, PI(cfg, "country"))
       ELSE IF Contains(Key.linkedin, n) THEN PI(cfg, "linkedin")
       ELSE IF Contains(Key.github, n) THEN PI(cfg, "github")
       ELSE IF Contains(Key.portfolio, n) \/ Contains(Key.website, n) THEN PI(cfg, "website")
       ELSE IF Contains(Key.comments, n) \/ Contains(Key.cover, n)
         THEN _generate_cover_letter(cfg)
       ELSE None

_get_field_value_from_config(cfg, field_name, field_type) ==
    IF field_name = None THEN None      \* None.lower() raises AttributeError
    ELSE
    LET n == Lower(field_name[1])
    IN IF Contains(Key.name, n)
         THEN Format2(PI(cfg, "name"), Tok.SP, PI(cfg, "surname"))
       ELSE IF Contains(Key.email, n) THEN PI(cfg, "email")
       ELSE IF Contains(Key.phone, n) THEN PI(cfg, "phone")
       ELSE IF Contains(Key.location, n)
         THEN Format2(PI(cfg, "city"), Tok.CommaSp, PI(cfg, "country"))
       ELSE IF Contains(Key.company, n) \/ Contains(Key.org, n)
         THEN LET first == First(cfg.experience_details)
              IN IF first = None THEN None ELSE first[1].company
       ELSE IF Contains(Key.linkedin, n) THEN PI(cfg, "linkedin")
       ELSE IF Contains(Key.github, n) THEN PI(cfg, "github")
       ELSE IF Contains(Key.portfolio, n) \/ Contains(Key.website, n) THEN PI(cfg, "website")
       ELSE IF Contains(Key.comments, n) \/ Contains(Key.cover, n)
         THEN _generate_cover_letter(cfg)
       ELSE None

--------------------------------------------------------------------------
(* Classification.  The decision is the text _analyze_field returns.       *)

\* _analyze_field without the required branch of lines 223-226
_analyze_field_NoAlert(cfg, fi) ==
    LET value == _get_field_value_from_config(cfg, fi.name, fi.type)
    IN IF fi.type = Some(Type.hidden) THEN Text.SkipHidden
       ELSE IF fi.type = Some(Type.file)
         THEN IF fi.name = None THEN Text.SkipError
              ELSE IF Contains(Key.resume, Lower(fi.name[1]))
                      \/ Contains(Key.cv, Lower(fi.name[1]))
                   THEN Text.Upload
                   ELSE Text.SkipUnknownFile
       ELSE IF Truthy(value)
         THEN Text.FillPrefix \o value[1]
              \o (IF fi.required THEN Text.RequiredSuffix ELSE Text.OptionalSuffix)
       ELSE Text.SkipOptional

\* _analyze_field without the hidden test of lines 210-211
_analyze_field_NoHidden(cfg, fi) ==
    IF fi.type = Some(Type.file)
    THEN IF fi.name = None THEN Text.SkipError
         ELSE IF Contains(Key.resume, Lower(fi.name[1]))
                 \/ Contains(Key.cv, Lower(fi.name[1]))
              THEN Text.Upload
              ELSE Text.SkipUnknownFile
    ELSE
    LET value == _get_field_value_from_config(cfg, fi.name, fi.type)
    IN IF fi.required
         THEN IF Truthy(value)
              THEN Text.FillPrefix \o value[1] \o Text.RequiredSuffix
              ELSE Text.Alert
       ELSE IF Truthy(value)
         THEN Text.FillPrefix \o value[1] \o Text.OptionalSuffix
       ELSE Text.SkipOptional

\* _analyze_field without the file branch of lines 214-217
_analyze_field_NoFile(cfg, fi) ==
    IF fi.type = Some(Type.hidden) THEN Text.SkipHidden
    ELSE
    LET value == _get_field_value_from_config(cfg, fi.name, fi.type)
    IN IF fi.required
         THEN IF Truthy(value)
              THEN Text.FillPrefix \o value[1] \o Text.RequiredSuffix
              ELSE Text.Alert
       ELSE IF Truthy(value)
         THEN Text.FillPrefix \o value[1] \o Text.OptionalSuffix
       ELSE Text.SkipOptional

_analyze_field(cfg, fi) ==
    LET field_name == fi.name
        field_type == fi.type
        required == fi.required
    IN IF field_type = Some(Type.hidden) THEN Text.SkipHidden
       ELSE IF field_type = Some(Type.file)
         THEN IF field_name = None THEN Text.SkipError   \* None.lower() raises
              ELSE IF Contains(Key.resume, Lower(field_name[1]))
                      \/ Contains(Key.cv, Lower(field_name[1]))
                   THEN Text.Upload
                   ELSE Text.SkipUnknownFile
       ELSE
       LET value == _get_field_value_from_config(cfg, field_name, field_type)
       IN IF required
            THEN IF Truthy(value)
                 THEN Text.FillPrefix \o value[1] \o Text.RequiredSuffix
                 ELSE Text.Alert
          ELSE IF Truthy(value)
            THEN Text.FillPrefix \o value[1] \o Text.OptionalSuffix
          ELSE Text.SkipOptional

\* the calls of _get_field_value_from_config that _analyze_field makes for a
\* field: line 220 is reached only past the returns of lines 211, 216, 217
\* (and past the AttributeError of line 215 for a file field without a name)
LookupCalls(fi) ==
    IF fi.type = Some(Type.hidden) \/ fi.type = Some(Type.file)
    THEN <<>>
    ELSE <<fi.name>>

\* the action a decision text carries, as log_field_analysis reads it
DecisionAction(text) ==
    IF Contains(Tok.action_tag, text)
    THEN Some(Strip(SplitFirst(SplitSecond(text, Tok.action_tag), Tok.NL)))
    ELSE None

\* the value a decision text carries, as _fill_field reads it
DecisionValue(text) ==
    IF Contains(Tok.value_tag, text)
    THEN Some(Strip(SplitFirst(SplitSecond(text, Tok.value_tag), Tok.NL)))
    ELSE None

Actions == {Tok.FILL, Tok.SKIP, Tok.UPLOAD, Tok.ALERT}

--------------------------------------------------------------------------
(* Direct calls of _analyze_field (it is also registered as a tool).       *)

\* no direct call of _analyze_field is under way
ClassifyIdle ==
    /\ field_info = [name |-> None, type |-> None, required |-> FALSE]
    /\ decision = None
    /\ lookups = <<>>

\* no call of _try_upload_file is under way
UploadIdle ==
    /\ selectors = <<>>
    /\ locator = <<>>
    /\ sel_i = 0
    /\ attempts = <<>>
    /\ attached = <<>>
    /\ upload_result = None

\* no call of handle_captcha is under way
CaptchaIdle ==
    /\ page = {}
    /\ page_at_call = {}
    /\ cap_pc = "idle"
    /\ cap_steps = <<>>
    /\ detected = None
    /\ cap_result = None
    /\ call_raised = FALSE

\* the orchestrator is not running
FlowIdle ==
    /\ pc = "idle"
    /\ browser = "none"
    /\ form_fields = None
    /\ idx = 0
    /\ analysis = None
    /\ required_fields = None
    /\ handled = <<>>
    /\ flow_result = "running"
    /\ session_failed = FALSE
    /\ flow_log = <<>>

\* no call of add_human_behavior is under way
BehaviorIdle ==
    /\ behavior_settings = [mouse_movements |-> None, scroll_behavior |-> None]
    /\ hb_pc = "idle"
    /\ hb_ops = <<>>

\* the dispatch of lines 276-288 is not under way
DispatchIdle ==
    /\ d_page = <<>>
    /\ d_pc = "idle"
    /\ d_i = 0
    /\ d_log = <<>>

\* no call of _get_form_fields is under way
ScanIdle ==
    /\ dom = <<>>
    /\ scan_pc = "idle"
    /\ scan_i = 0
    /\ scan_queried = FALSE
    /\ scan_fields = <<>>
    /\ scan_sources = <<>>
    /\ scan_result = None

\* no call of _fill_field is under way
FillIdle ==
    /\ fill_field = [name |-> None, type |-> None, required |-> FALSE, selector |-> <<>>]
    /\ fill_analysis = <<>>
    /\ fill_ops = <<>>
    /\ fill_result = None

\* no call of _save_application_details has been made, no history file
SaveIdle ==
    /\ history_file = [kind |-> "missing", items |-> <<>>]
    /\ history_at_start = history_file
    /\ save_calls = <<>>
    /\ save_errors = 0

InitClassify ==
    /\ config \in Profiles
    /\ field_info \in Fields
    /\ decision = None
    /\ lookups = <<>>
    /\ UploadIdle
    /\ CaptchaIdle
    /\ FlowIdle
    /\ SaveIdle
    /\ DispatchIdle
    /\ ScanIdle
    /\ FillIdle
    /\ BehaviorIdle

AnalyzeField ==
    /\ decision = None
    /\ decision' = Some(_analyze_field(config, field_info))
    /\ lookups' = LookupCalls(field_info)
    /\ UNCHANGED <<config, save_vars, dispatch_vars, scan_vars, fill_vars, behavior_vars, field_info, upload_vars, captcha_vars, flow_vars>>

NextClassify == AnalyzeField

SpecClassify == InitClassify /\ [][NextClassify]_vars

--------------------------------------------------------------------------
\* C1: every decision of _analyze_field carries one action of FILL, SKIP,
\* UPLOAD, ALERT, and a FILL decision carries a non-empty value.
C1_FillValueNonEmpty ==
    decision # None =>
        /\ DecisionAction(decision[1]) # None
        /\ DecisionAction(decision[1])[1] \in Actions
        /\ DecisionAction(decision[1]) = Some(Tok.FILL) =>
               /\ DecisionValue(decision[1]) # None
               /\ DecisionValue(decision[1])[1] # <<>>

\* the profile yields a value for the field: the lookup returns a non-empty string
Resolvable(cfg, fi) == Truthy(_get_field_value_from_config(cfg, fi.name, fi.type))

\* C2 as stated: a required field with no resolvable value is ALERT, whatever
\* its type or name.
C2_RequiredMissingAlert ==
    (decision # None /\ field_info.required /\ ~Resolvable(config, field_info))
        => DecisionAction(decision[1]) = Some(Tok.ALERT)

\* C2 amended: a required field that is neither hidden nor file and for which
\* the lookup returns None or the empty string is ALERT, with no value.
C2_RequiredMissingAlertNonFile ==
    (/\ decision # None
     /\ field_info.required
     /\ field_info.type \notin {Some(Type.hidden), Some(Type.file)}
     /\ ~Resolvable(config, field_info))
        => /\ DecisionAction(decision[1]) = Some(Tok.ALERT)
           /\ DecisionValue(decision[1]) = None

C2_Witness ==
    /\ decision = Some(Text.Alert)
    /\ field_info = [name |-> Some(Name.emergency_contact), type |-> Some(Type.text),
                     required |-> TRUE]
    /\ config = FullProfile

\* C11: a hidden field is SKIP whatever its required flag, its name and the
\* profile, and _get_field_value_from_config is not called for it.
C11_HiddenAlwaysSkip ==
    (decision # None /\ field_info.type = Some(Type.hidden)) =>
        /\ DecisionAction(decision[1]) = Some(Tok.SKIP)
        /\ DecisionValue(decision[1]) = None
        /\ decision[1] = Text.SkipHidden
        /\ lookups = <<>>

\* a required hidden field whose name has a profile value
C11_Witness ==
    /\ decision = Some(Text.SkipHidden)
    /\ field_info = [name |-> Some(Name.full_name), type |-> Some(Type.hidden),
                     required |-> TRUE]
    /\ config = FullProfile
    /\ lookups = <<>>

\* the field name contains "resume" or "cv", whatever the case of its letters
NamesResume(fi) ==
    /\ fi.name # None
    /\ \E i \in 1..Len(fi.name[1]) : \E sub \in {Key.resume, Key.cv} :
          /\ i + Len(sub) - 1 <= Len(fi.name[1])
          /\ \A j \in 1..Len(sub) : LowerChar(fi.name[1][i + j - 1]) = sub[j]

\* C12: a file field is UPLOAD with value resume.pdf exactly when its name
\* contains "resume" or "cv" in any case, and SKIP with no value otherwise;
\* it is never FILL or ALERT, whatever its required flag.
C12_FileUploadOrSkip ==
    (decision # None /\ field_info.type = Some(Type.file)) =>
        IF NamesResume(field_info)
        THEN /\ DecisionAction(decision[1]) = Some(Tok.UPLOAD)
             /\ DecisionValue(decision[1])
                   = Some(<<"r","e","s","u","m","e",".","p","d","f">>)
        ELSE /\ DecisionAction(decision[1]) = Some(Tok.SKIP)
             /\ DecisionValue(decision[1]) = None

\* an optional file field named "CV" in capitals
C12_Witness ==
    /\ decision = Some(Text.Upload)
    /\ field_info = [name |-> Some(Name.CV), type |-> Some(Type.file),
                     required |-> FALSE]

\* the keys in their priority order, each with its alternative spellings
PriorityKeys ==
    <<{Key.name}, {Key.email}, {Key.phone}, {Key.location}, {Key.company, Key.org},
      {Key.linkedin}, {Key.github}, {Key.portfolio, Key.website},
      {Key.comments, Key.cover}>>

\* position in PriorityKeys of the first key that occurs in the lower-cased
\* field name, 0 when none does (or when there is no name)
FirstKey(fi) ==
    IF fi.name = None THEN 0
    ELSE LET hits == {i \in 1..Len(PriorityKeys) :
                         \E k \in PriorityKeys[i] : Contains(k, Lower(fi.name[1]))}
         IN IF hits = {} THEN 0 ELSE CHOOSE i \in hits : \A j \in hits : i <= j

\* what the profile holds for the key at position i
KeyValue(cfg, i) ==
    CASE i = 1 -> Format2(cfg.personal_information.name, <<" ">>,
                          cfg.personal_information.surname)
      [] i = 2 -> cfg.personal_information.email
      [] i = 3 -> cfg.personal_information.phone
      [] i = 4 -> Format2(cfg.personal_information.city, <<",", " ">>,
                          cfg.personal_information.country)
      [] i = 5 -> IF cfg.experience_details \in {None, Some(<<>>)} THEN None
                  ELSE cfg.experience_details[1][1].company
      [] i = 6 -> cfg.personal_information.linkedin
      [] i = 7 -> cfg.personal_information.github
      [] i = 8 -> cfg.personal_information.website
      [] i = 9 -> _generate_cover_letter(cfg)
      [] OTHER -> None

\* C13: for a field that is neither hidden nor file the lookup is called once
\* and returns the value of the first key, in priority order, that occurs in
\* the lower-cased name, and of no other key; the decision is built from that
\* value; a name matching no key gives no value and, when optional, SKIP.
C13_FirstKeyWins ==
    (/\ decision # None
     /\ field_info.type \notin {Some(Type.hidden), Some(Type.file)}) =>
        LET value == _get_field_value_from_config(config, field_info.name,
                                                  field_info.type)
        IN /\ lookups = <<field_info.name>>
           /\ value = KeyValue(config, FirstKey(field_info))
           /\ FirstKey(field_info) = 0 => value = None
           /\ (FirstKey(field_info) = 0 /\ ~field_info.required)
                 => DecisionAction(decision[1]) = Some(Tok.SKIP)
           /\ Truthy(value) =>
                 /\ DecisionAction(decision[1]) = Some(Tok.FILL)
                 /\ SubSeq(decision[1], 1, Len(Text.FillPrefix) + Len(value[1]))
                       = Text.FillPrefix \o value[1]
           /\ (field_info.name = Some(Name.full_name) /\ config = FullProfile)
                 => value = Some(<<"A","d","a"," ","L","o","v","e","l","a","c","e">>)

\* company_name holds both "name" and "company": name comes first
C13_Witness ==
    /\ field_info = [name |-> Some(Name.company_name), type |-> Some(Type.text),
                     required |-> FALSE]
    /\ config = FullProfile
    /\ decision = Some(Text.FillPrefix \o Val.Ada \o <<" ">> \o Val.Lovelace
                       \o Text.OptionalSuffix)

\* the profile entries the key at position i is made of
\* (an empty experience list counts as absent)
KeyAbsent(cfg, i) ==
    LET pi == cfg.personal_information
        noexp == cfg.experience_details \in {None, Some(<<>>)}
    IN CASE i = 1 -> pi.name = None \/ pi.surname = None
         [] i = 2 -> pi.email = None
         [] i = 3 -> pi.phone = None
         [] i = 4 -> pi.city = None \/ pi.country = None
         [] i = 5 -> noexp \/ cfg.experience_details[1][1].company = None
         [] i = 6 -> pi.linkedin = None
         [] i = 7 -> pi.github = None
         [] i = 8 -> pi.website = None
         [] i = 9 -> \/ noexp
                     \/ \E k \in ExpKeys : cfg.experience_details[1][1][k] = None
                     \/ \E k \in SkillKeys : cfg.skills[k] = None
                     \/ pi.name = None \/ pi.surname = None
         [] OTHER -> FALSE

\* C14: when a profile entry the lookup of a field needs is absent,
\* _analyze_field still returns a decision, and it is the one of a field
\* without value: ALERT when required, SKIP when optional.
C14_AbsentKeyNoValue ==
    (/\ decision # None
     /\ field_info.type \notin {Some(Type.hidden), Some(Type.file)}
     /\ KeyAbsent(config, FirstKey(field_info))) =>
        /\ DecisionAction(decision[1])
              = Some(IF field_info.required THEN Tok.ALERT ELSE Tok.SKIP)
        /\ DecisionValue(decision[1]) = None

--------------------------------------------------------------------------
(* _try_upload_file, one loop iteration per step.  What the page does for  *)
(* a selector is fixed when the call starts:                               *)
(*   "raises"         page.locator(selector).count() raises                *)
(*   "none"           count() is 0                                         *)
(*   "attach_raises"  count() > 0 and set_input_files raises               *)
(*   "wait_raises"    set_input_files returns and wait_for_timeout raises  *)
(*   "ok"             set_input_files and wait_for_timeout return          *)

MaxSelectors == 3

resume_selectors == <<"input[name='resume']",
                      "input[type='file'][name*='resume' i]",
                      "input[type='file'][accept='.pdf']",
                      "input[type='file'][name*='cv' i]",
                      "input[type='file']">>

LocatorOutcomes == {"raises", "none", "attach_raises", "wait_raises", "ok"}

Range(seq) == {seq[k] : k \in 1..Len(seq)}

SelectorLists ==
    {SubSeq(resume_selectors, 1, n) :
        n \in 0..(IF MaxSelectors < Len(resume_selectors)
                  THEN MaxSelectors ELSE Len(resume_selectors))}

InitUpload ==
    /\ config = FullProfile
    /\ ClassifyIdle
    /\ CaptchaIdle
    /\ FlowIdle
    /\ SaveIdle
    /\ DispatchIdle
    /\ ScanIdle
    /\ FillIdle
    /\ BehaviorIdle
    /\ selectors \in SelectorLists
    /\ locator \in [Range(selectors) -> LocatorOutcomes]
    /\ sel_i = 0
    /\ attempts = <<>>
    /\ attached = <<>>
    /\ upload_result = None

\* count() > 0 for this outcome
Resolves(outcome) == outcome \in {"attach_raises", "wait_raises", "ok"}

\* set_input_files returned for this outcome
Attaches(outcome) == outcome \in {"wait_raises", "ok"}

\* the loop body with the try/except of lines 424-432 around the whole loop:
\* the first exception ends the scan with failure
TryUploadSelector_NoIsolation ==
    /\ upload_result = None
    /\ sel_i < Len(selectors)
    /\ LET selector == selectors[sel_i + 1]
           outcome == locator[selector]
       IN /\ sel_i' = sel_i + 1
          /\ attempts' = Append(attempts, selector)
          /\ attached' = IF Attaches(outcome) THEN Append(attached, selector)
                         ELSE attached
          /\ upload_result' = IF outcome = "ok" THEN Some(TRUE)
                              ELSE IF outcome = "none" THEN None
                              ELSE Some(FALSE)
    /\ UNCHANGED <<config, save_vars, dispatch_vars, scan_vars, fill_vars, behavior_vars, classify_vars, captcha_vars, flow_vars, selectors, locator>>

\* lines 423-432: the body of the for loop for the next selector
TryUploadSelector ==
    /\ upload_result = None
    /\ sel_i < Len(selectors)
    /\ LET selector == selectors[sel_i + 1]
           outcome == locator[selector]
       IN /\ sel_i' = sel_i + 1
          /\ attempts' = Append(attempts, selector)
          /\ attached' = IF Attaches(outcome) THEN Append(attached, selector)
                         ELSE attached
          /\ upload_result' = IF outcome = "ok" THEN Some(TRUE) ELSE None
    /\ UNCHANGED <<config, save_vars, dispatch_vars, scan_vars, fill_vars, behavior_vars, classify_vars, captcha_vars, flow_vars, selectors, locator>>

\* line 434: the list is exhausted
TryUploadExhausted ==
    /\ upload_result = None
    /\ sel_i = Len(selectors)
    /\ upload_result' = Some(FALSE)
    /\ UNCHANGED <<config, save_vars, dispatch_vars, scan_vars, fill_vars, behavior_vars, classify_vars, captcha_vars, flow_vars, selectors, locator,
                   sel_i, attempts, attached>>

NextUpload == TryUploadSelector \/ TryUploadExhausted

SpecUpload == InitUpload /\ [][NextUpload]_vars

\* positions of the selectors that resolve to at least one element
ResolvingAt == {k \in 1..Len(selectors) : Resolves(locator[selectors[k]])}

\* positions of the selectors whose attach and wait both return
CompletingAt == {k \in 1..Len(selectors) : locator[selectors[k]] = "ok"}

Least(S) == CHOOSE k \in S : \A j \in S : k <= j

\* the selectors are taken in list order, each at most once
InListOrder == attempts = SubSeq(selectors, 1, Len(attempts))

\* C6 as stated: selectors are tried in list order, and the first one that
\* resolves is the one attached to, the call succeeds and none after it is tried.
C6_FirstResolvingUsed ==
    /\ InListOrder
    /\ (upload_result # None /\ ResolvingAt # {}) =>
           /\ upload_result = Some(TRUE)
           /\ attached = <<selectors[Least(ResolvingAt)]>>
           /\ Len(attempts) = Least(ResolvingAt)

\* C6 amended: selectors are tried in list order; the first one that resolves
\* and whose attach and wait return ends the scan with success, nothing after
\* it is tried; the missing-required list is not touched.
C6_FirstCompletingUsed ==
    /\ InListOrder
    /\ required_fields = None
    /\ (upload_result # None /\ CompletingAt # {}) =>
           /\ upload_result = Some(TRUE)
           /\ Len(attempts) = Least(CompletingAt)
           /\ attached # <<>>
           /\ attached[Len(attached)] = selectors[Least(CompletingAt)]
    /\ upload_result = Some(TRUE) => CompletingAt # {}

\* selectors [A, B, C] of which only C resolves: tried A, B, C, then success
C6_Witness ==
    /\ Len(selectors) = 3
    /\ locator[selectors[1]] = "none"
    /\ locator[selectors[2]] = "none"
    /\ locator[selectors[3]] = "ok"
    /\ attempts = selectors
    /\ attached = <<selectors[3]>>
    /\ upload_result = Some(TRUE)

\* C7: each selector is attempted at most once, a failing attempt does not
\* stop the scan, and failure is returned only after every selector was
\* attempted and no attach succeeded.
C7_FailureOnlyWithoutAttach ==
    /\ InListOrder
    /\ upload_result = Some(FALSE) =>
           /\ attempts = selectors
           /\ attached = <<>>

--------------------------------------------------------------------------
(* CAPTCHA handling (AntiBotHandler).  The page is the set of elements     *)
(* that a selector of the handler can match; a CSS selector is matched     *)
(* against an element's tag, id, class, title and src.                     *)

\* tag names, ids, classes and attribute values of the selectors (lines 51-59,
\* 90) and of the page elements used as inputs
Css == [
    iframe |-> <<"i","f","r","a","m","e">>,
    div |-> <<"d","i","v">>,
    checkbox |-> <<"c","h","e","c","k","b","o","x">>,
    h_captcha |-> <<"h","-","c","a","p","t","c","h","a">>,
    hcaptcha |-> <<"h","c","a","p","t","c","h","a">>,
    recaptcha |-> <<"r","e","c","a","p","t","c","h","a">>,
    g_recaptcha |-> <<"g","-","r","e","c","a","p","t","c","h","a">>,
    captcha |-> <<"c","a","p","t","c","h","a">>,
    src_hcaptcha |-> <<"h","t","t","p","s",":","/","/","h","c","a","p","t","c","h","a",".",
        "c","o","m","/","c">>,
    src_recaptcha |-> <<"h","t","t","p","s",":","/","/","g","o","o","g","l","e",".","c","o",
        "m","/","r","e","c","a","p","t","c","h","a">>,
    src_funcaptcha |-> <<"h","t","t","p","s",":","/","/","f","u","n","c","a","p","t","c",
        "h","a",".","c","o","m">>,
    src_blank |-> <<"a","b","o","u","t",":","b","l","a","n","k">>,
    title_hcaptcha |-> <<"h","C","a","p","t","c","h","a"," ","c","h","e","c","k","b","o","x">>,
    title_terms |-> <<"t","e","r","m","s"," ","c","h","e","c","k","b","o","x">>]

IdSel(v) == [kind |-> "id", tag |-> <<>>, attr |-> "id", val |-> v]
ClassSel(v) == [kind |-> "class", tag |-> <<>>, attr |-> "class", val |-> v]
\* tag[attr*='v']
AttrSel(t, a, v) == [kind |-> "attr", tag |-> t, attr |-> a, val |-> v]

\* lines 49-61, in the iteration order of the dict
captcha_selectors ==
    << <<"hcaptcha", AttrSel(Css.iframe, "title", Css.checkbox)>>,
       <<"hcaptcha", IdSel(Css.h_captcha)>>,
       <<"hcaptcha", ClassSel(Css.h_captcha)>>,
       <<"hcaptcha", AttrSel(Css.iframe, "src", Css.hcaptcha)>>,
       <<"recaptcha", AttrSel(Css.iframe, "src", Css.recaptcha)>>,
       <<"recaptcha", ClassSel(Css.g_recaptcha)>>,
       <<"recaptcha", IdSel(Css.recaptcha)>> >>

\* line 90
rescan_selector == AttrSel(Css.iframe, "src", Css.captcha)

Element(t, i, c, ti, s) == [tag |-> t, id |-> i, class |-> c, title |-> ti, src |-> s]

Elements ==
    {Element(Css.iframe, <<>>, <<>>, Css.title_hcaptcha, Css.src_hcaptcha),
     Element(Css.iframe, <<>>, <<>>, <<>>, Css.src_recaptcha),
     Element(Css.iframe, <<>>, <<>>, <<>>, Css.src_funcaptcha),
     Element(Css.iframe, <<>>, <<>>, Css.title_terms, Css.src_blank),
     Element(Css.div, Css.h_captcha, <<>>, <<>>, <<>>),
     Element(Css.div, <<>>, Css.h_captcha, <<>>, <<>>),
     Element(Css.div, <<>>, Css.g_recaptcha, <<>>, <<>>),
     Element(Css.div, Css.recaptcha, <<>>, <<>>, <<>>)}

MaxMarkers == 2

Pages == {p \in SUBSET Elements : Cardinality(p) <= MaxMarkers}

\* whether the CSS selector matches the element
Matches(sel, el) ==
    IF sel.kind = "attr"
    THEN el.tag = sel.tag /\ Contains(sel.val, el[sel.attr])
    ELSE el[sel.attr] = sel.val

\* page.locator(selector).count()
Count(sel, p) == Cardinality({el \in p : Matches(sel, el)})

\* line 65
Found(sel, p) == Count(sel, p) > 0

\* positions of the table whose selector resolves on the page
TableHits(p) == {k \in 1..Len(captcha_selectors) : Found(captcha_selectors[k][2], p)}

InitCaptcha ==
    /\ config = FullProfile
    /\ ClassifyIdle
    /\ UploadIdle
    /\ FlowIdle
    /\ SaveIdle
    /\ DispatchIdle
    /\ ScanIdle
    /\ FillIdle
    /\ BehaviorIdle
    /\ page \in Pages
    /\ page_at_call = page
    /\ cap_pc = "scan"
    /\ cap_steps = <<>>
    /\ detected = None
    /\ cap_result = None
    /\ call_raised = FALSE

\* return value; raised says whether this is the return of an except clause
CaptchaReturn(value, raised) ==
    /\ cap_result' = Some(value)
    /\ cap_pc' = "done"
    /\ call_raised' = (call_raised \/ raised)

\* the scan with the return of line 67 outside the test of line 65: the
\* manual path is taken for the first selector, resolving or not
HandleCaptchaScan_AlwaysManual ==
    /\ cap_pc = "scan"
    /\ \E raises \in BOOLEAN :
          IF raises
          THEN CaptchaReturn(FALSE, TRUE) /\ UNCHANGED detected
          ELSE /\ detected' = Some(captcha_selectors[1])
               /\ cap_pc' = "screenshot"
               /\ UNCHANGED <<cap_result, call_raised>>
    /\ UNCHANGED <<config, save_vars, dispatch_vars, scan_vars, fill_vars, behavior_vars, classify_vars, upload_vars, flow_vars,
                   page, page_at_call, cap_steps>>

\* lines 63-73: the detection scan; a page query that raises ends in line 73
HandleCaptchaScan ==
    /\ cap_pc = "scan"
    /\ \E raises \in BOOLEAN :
          IF raises
          THEN CaptchaReturn(FALSE, TRUE) /\ UNCHANGED detected
          ELSE IF TableHits(page) = {}
          THEN CaptchaReturn(FALSE, FALSE) /\ UNCHANGED detected
          ELSE /\ detected' = Some(captcha_selectors[Least(TableHits(page))])
               /\ cap_pc' = "screenshot"
               /\ UNCHANGED <<cap_result, call_raised>>
    /\ UNCHANGED <<config, save_vars, dispatch_vars, scan_vars, fill_vars, behavior_vars, classify_vars, upload_vars, flow_vars,
                   page, page_at_call, cap_steps>>

\* a step of _handle_manual_captcha that raises ends in lines 97-99
ManualStep(name, next) ==
    \E raises \in BOOLEAN :
        IF raises
        THEN CaptchaReturn(FALSE, TRUE) /\ UNCHANGED cap_steps
        ELSE /\ cap_steps' = Append(cap_steps, name)
             /\ cap_pc' = next
             /\ UNCHANGED <<cap_result, call_raised>>

\* _handle_manual_captcha without the input() of line 84
ManualScreenshot_NoInput ==
    /\ cap_pc = "screenshot"
    /\ ManualStep("screenshot", "settle")
    /\ UNCHANGED <<config, save_vars, dispatch_vars, scan_vars, fill_vars, behavior_vars, classify_vars, upload_vars, flow_vars,
                   page, page_at_call, detected>>

\* line 81: page.screenshot(path="captcha.png")
ManualScreenshot ==
    /\ cap_pc = "screenshot"
    /\ ManualStep("screenshot", "input")
    /\ UNCHANGED <<config, save_vars, dispatch_vars, scan_vars, fill_vars, behavior_vars, classify_vars, upload_vars, flow_vars,
                   page, page_at_call, detected>>

\* line 84: input(...) returns when the human presses Enter; what the human
\* did in the browser meanwhile decides which elements are on the page now
ManualInput ==
    /\ cap_pc = "input"
    /\ ManualStep("input", "settle")
    /\ page' \in Pages
    /\ UNCHANGED <<config, save_vars, dispatch_vars, scan_vars, fill_vars, behavior_vars, classify_vars, upload_vars, flow_vars,
                   page_at_call, detected>>

\* line 87: page.wait_for_timeout(2000)
ManualSettle ==
    /\ cap_pc = "settle"
    /\ ManualStep("wait", "rescan")
    /\ UNCHANGED <<config, save_vars, dispatch_vars, scan_vars, fill_vars, behavior_vars, classify_vars, upload_vars, flow_vars,
                   page, page_at_call, detected>>

\* lines 90-95: the re-scan and the verdict
ManualRescan ==
    /\ cap_pc = "rescan"
    /\ \E raises \in BOOLEAN :
          IF raises
          THEN CaptchaReturn(FALSE, TRUE) /\ UNCHANGED cap_steps
          ELSE /\ cap_steps' = Append(cap_steps, "rescan")
               /\ CaptchaReturn(~Found(rescan_selector, page), FALSE)
    /\ UNCHANGED <<config, save_vars, dispatch_vars, scan_vars, fill_vars, behavior_vars, classify_vars, upload_vars, flow_vars,
                   page, page_at_call, detected>>

CaptchaStep ==
    \/ HandleCaptchaScan
    \/ ManualScreenshot
    \/ ManualInput
    \/ ManualSettle
    \/ ManualRescan

NextCaptcha == CaptchaStep

SpecCaptcha == InitCaptcha /\ [][NextCaptcha]_vars

ManualOrder == <<"screenshot", "input", "wait", "rescan">>

\* a challenge marker is on the page: a selector of the detection table or
\* the generic re-scan selector resolves
MarkerPresent(p) == TableHits(p) # {} \/ Found(rescan_selector, p)

\* C8: on a page where no selector of the detection table resolves,
\* handle_captcha returns False, takes no screenshot and never waits for the
\* human.
C8_NoMarkerNoBlock ==
    TableHits(page_at_call) = {} =>
        /\ cap_pc \in {"scan", "done"}
        /\ cap_steps = <<>>
        /\ detected = None
        /\ page = page_at_call
        /\ cap_pc = "done" => cap_result = Some(FALSE)

C8_Witness ==
    /\ cap_pc = "done"
    /\ page_at_call = {Element(Css.iframe, <<>>, <<>>, <<>>, Css.src_funcaptcha)}
    /\ cap_result = Some(FALSE)
    /\ cap_steps = <<>>

\* C9: after a detection the steps are screenshot, wait for the human, settle
\* wait, re-scan, in this order; when all four have been done and no marker
\* is left on the page, handle_captcha returns True.
C9_ManualOrder ==
    /\ cap_steps = SubSeq(ManualOrder, 1, Len(cap_steps))
    /\ cap_steps # <<>> => detected # None
    /\ cap_pc = "input" => cap_steps = <<"screenshot">>
    /\ cap_pc = "settle" => cap_steps = <<"screenshot", "input">>
    /\ cap_pc = "rescan" => cap_steps = <<"screenshot", "input", "wait">>
    /\ page # page_at_call => (cap_steps # <<>> /\ cap_steps[1] = "screenshot")
    /\ (cap_pc = "done" /\ cap_steps = ManualOrder /\ ~MarkerPresent(page))
           => cap_result = Some(TRUE)

C9_Witness ==
    /\ cap_pc = "done"
    /\ detected # None
    /\ page_at_call # {}
    /\ page = {}
    /\ cap_steps = ManualOrder
    /\ cap_result = Some(TRUE)

\* C10: after a detection, True is returned only if no challenge marker is
\* left on the page at the re-scan.
C10_ResolvedOnlyWithoutMarker ==
    (cap_pc = "done" /\ detected # None /\ cap_result = Some(TRUE))
        => ~MarkerPresent(page)

\* what handle_captcha returns when its scan finds no challenge (line 69)
NoChallengeResult == Some(FALSE)

\* C22: when the re-scan after the human's signal still finds a marker, the
\* result handle_captcha returns differs from the one it returns when no
\* challenge was detected at all.
C22_UnresolvedDistinguishable ==
    (/\ cap_pc = "done"
     /\ detected # None
     /\ cap_steps = ManualOrder
     /\ Found(rescan_selector, page))
        => cap_result # NoChallengeResult

--------------------------------------------------------------------------
(* test_application_flow, statement by statement.  A call of               *)
(* handle_captcha is the CAPTCHA machine above, run to its return.         *)

MaxFields == 2

FlowFields ==
    {[name |-> Some(Name.full_name), type |-> Some(Type.text), required |-> TRUE],
     [name |-> Some(Name.referral_source), type |-> Some(Type.text), required |-> FALSE],
     [name |-> Some(Name.emergency_contact), type |-> Some(Type.text), required |-> TRUE],
     [name |-> Some(Name.Resume), type |-> Some(Type.file), required |-> TRUE]}

RECURSIVE SeqsUpTo(_, _)
SeqsUpTo(S, n) ==
    IF n = 0 THEN {<<>>}
    ELSE LET shorter == SeqsUpTo(S, n - 1)
         IN shorter \cup {Append(q, x) : q \in {r \in shorter : Len(r) = n - 1}, x \in S}

\* the lists _get_form_fields can return
Forms == SeqsUpTo(FlowFields, MaxFields)

InitFlow ==
    /\ config = FullProfile
    /\ ClassifyIdle
    /\ UploadIdle
    /\ CaptchaIdle
    /\ SaveIdle
    /\ DispatchIdle
    /\ ScanIdle
    /\ FillIdle
    /\ BehaviorIdle
    /\ pc = "launch"
    /\ browser = "none"
    /\ form_fields = None
    /\ idx = 0
    /\ analysis = None
    /\ required_fields = None
    /\ handled = <<>>
    /\ flow_result = "running"
    /\ session_failed = FALSE
    /\ flow_log = <<>>

\* a call made before the try of line 253: when it raises nothing catches it
\* and the with block of line 248 is left
CallOutsideTry(next) ==
    \E ok \in BOOLEAN :
        IF ok
        THEN pc' = next /\ UNCHANGED <<flow_result, session_failed>>
        ELSE pc' = "exited" /\ flow_result' = "raised" /\ session_failed' = TRUE

\* a browser call made inside the try.  When it raises an Exception, line 307
\* catches it; a KeyboardInterrupt or SystemExit is no Exception: line 307
\* lets it pass and only the finally of line 311 runs.
CallInsideTry(next, step) ==
    \E result \in {"ok", "exception", "interrupt"} :
        IF result = "ok"
        THEN pc' = next /\ flow_log' = Append(flow_log, step)
             /\ UNCHANGED session_failed
        ELSE /\ pc' = IF result = "exception" THEN "except" ELSE "finally_raise"
             /\ session_failed' = TRUE
             /\ flow_log' = Append(flow_log, result)

\* line 249: p.chromium.launch
Launch ==
    /\ pc = "launch"
    /\ CallOutsideTry("new_context")
    /\ browser' = IF pc' = "new_context" THEN "open" ELSE browser
    /\ UNCHANGED <<config, save_vars, dispatch_vars, scan_vars, fill_vars, behavior_vars, classify_vars, upload_vars, captcha_vars, form_fields,
                   idx, analysis, required_fields, handled, flow_log>>

\* line 250: self.anti_bot.setup_browser_context(browser)
NewContext ==
    /\ pc = "new_context"
    /\ CallOutsideTry("new_page")
    /\ UNCHANGED <<config, save_vars, dispatch_vars, scan_vars, fill_vars, behavior_vars, classify_vars, upload_vars, captcha_vars, browser,
                   form_fields, idx, analysis, required_fields, handled, flow_log>>

\* line 251: context.new_page()
NewPage ==
    /\ pc = "new_page"
    /\ CallOutsideTry("goto")
    /\ UNCHANGED <<config, save_vars, dispatch_vars, scan_vars, fill_vars, behavior_vars, classify_vars, upload_vars, captcha_vars, browser,
                   form_fields, idx, analysis, required_fields, handled, flow_log>>

\* line 256: page.goto(job_url)
Goto ==
    /\ pc = "goto"
    /\ CallInsideTry("wait_load", "goto")
    /\ UNCHANGED <<config, save_vars, dispatch_vars, scan_vars, fill_vars, behavior_vars, classify_vars, upload_vars, captcha_vars, browser,
                   form_fields, idx, analysis, required_fields, handled, flow_result>>

\* line 257 followed at once by the field scan of line 267
WaitLoad_SkipWarmup ==
    /\ pc = "wait_load"
    /\ CallInsideTry("get_fields", "networkidle")
    /\ UNCHANGED <<config, save_vars, dispatch_vars, scan_vars, fill_vars, behavior_vars, classify_vars, upload_vars, captcha_vars, browser,
                   form_fields, idx, analysis, required_fields, handled, flow_result>>

\* line 257: page.wait_for_load_state("networkidle")
WaitLoad ==
    /\ pc = "wait_load"
    /\ CallInsideTry("warmup_behavior", "networkidle")
    /\ UNCHANGED <<config, save_vars, dispatch_vars, scan_vars, fill_vars, behavior_vars, classify_vars, upload_vars, captcha_vars, browser,
                   form_fields, idx, analysis, required_fields, handled, flow_result>>

\* line 260: add_human_behavior catches whatever it raises
WarmupBehavior ==
    /\ pc = "warmup_behavior"
    /\ pc' = "warmup_captcha"
    /\ flow_log' = Append(flow_log, "human")
    /\ UNCHANGED <<config, save_vars, dispatch_vars, scan_vars, fill_vars, behavior_vars, classify_vars, upload_vars, captcha_vars, browser,
                   form_fields, idx, analysis, required_fields, handled,
                   flow_result, session_failed>>

\* line 263: the call of handle_captcha on the page as it is now
WarmupCaptcha ==
    /\ pc = "warmup_captcha"
    /\ pc' = "warmup_captcha_wait"
    /\ page' \in Pages
    /\ page_at_call' = page'
    /\ cap_pc' = "scan"
    /\ cap_steps' = <<>>
    /\ detected' = None
    /\ cap_result' = None
    /\ UNCHANGED <<config, save_vars, dispatch_vars, scan_vars, fill_vars, behavior_vars, classify_vars, upload_vars, call_raised, browser,
                   form_fields, idx, analysis, required_fields, handled,
                   flow_result, session_failed, flow_log>>

\* lines 263-264 with a result other than True treated as an error
WarmupCaptchaReturn_HaltUnlessResolved ==
    /\ pc = "warmup_captcha_wait"
    /\ cap_pc = "done"
    /\ pc' = IF cap_result = Some(TRUE) THEN "get_fields" ELSE "except"
    /\ flow_log' = Append(flow_log, "captcha")
    /\ page_at_call' = {}
    /\ cap_pc' = "idle"
    /\ cap_steps' = <<>>
    /\ detected' = None
    /\ cap_result' = None
    /\ UNCHANGED <<config, save_vars, dispatch_vars, scan_vars, fill_vars, behavior_vars, classify_vars, upload_vars, page, call_raised, browser,
                   form_fields, idx, analysis, required_fields, handled,
                   flow_result, session_failed>>

\* lines 263-264: handle_captcha has returned; its result is only logged
WarmupCaptchaReturn ==
    /\ pc = "warmup_captcha_wait"
    /\ cap_pc = "done"
    /\ pc' = "get_fields"
    /\ flow_log' = Append(flow_log, "captcha")
    /\ page_at_call' = {}
    /\ cap_pc' = "idle"
    /\ cap_steps' = <<>>
    /\ detected' = None
    /\ cap_result' = None
    /\ UNCHANGED <<config, save_vars, dispatch_vars, scan_vars, fill_vars, behavior_vars, classify_vars, upload_vars, page, call_raised, browser,
                   form_fields, idx, analysis, required_fields, handled,
                   flow_result, session_failed>>

\* line 267: _get_form_fields catches whatever it raises
GetFormFields ==
    /\ pc = "get_fields"
    /\ \E form \in Forms : form_fields' = Some(form)
    /\ pc' = "loop"
    /\ flow_log' = Append(flow_log, "scan")
    /\ UNCHANGED <<config, save_vars, dispatch_vars, scan_vars, fill_vars, behavior_vars, classify_vars, upload_vars, captcha_vars, browser,
                   idx, analysis, required_fields, handled, flow_result,
                   session_failed>>

\* lines 268-269: the for statement takes the next field, if any, and the
\* body starts with add_human_behavior
LoopNext ==
    /\ pc = "loop"
    /\ IF idx < Len(form_fields[1])
       THEN /\ idx' = idx + 1
            /\ pc' = "iter"
            /\ flow_log' = Append(flow_log, "human")
       ELSE /\ pc' = "report"
            /\ flow_log' = Append(flow_log, "loop_done")
            /\ UNCHANGED idx
    /\ UNCHANGED <<config, save_vars, dispatch_vars, scan_vars, fill_vars, behavior_vars, classify_vars, upload_vars, captcha_vars, browser,
                   form_fields, analysis, required_fields, handled, flow_result,
                   session_failed>>

\* lines 272-288: the rest of the loop body.  Line 272 reads the local
\* analysis, which is bound only by line 276: on the first field the read
\* raises UnboundLocalError.  The name required_fields is bound nowhere: an
\* append to it raises NameError.  ok is what _fill_field or _upload_resume
\* returns; the CAPTCHA re-check of line 273 changes nothing the loop reads.
IterBody ==
    /\ pc = "iter"
    /\ LET field == form_fields[1][idx]
       IN IF analysis = None
          THEN /\ pc' = "except"
               /\ flow_log' = Append(flow_log, "exception")
               /\ UNCHANGED <<analysis, required_fields, handled>>
          ELSE \E ok \in BOOLEAN :
               LET recheck == Contains(Tok.action_fill, analysis[1])
                              \/ Contains(Tok.action_upload, analysis[1])
                   a == _analyze_field(config, field)
                   executes == Contains(Tok.action_fill, a) \/ Contains(Tok.action_upload, a)
                   appends == IF executes THEN ~ok /\ field.required
                              ELSE Contains(Tok.action_alert, a)
               IN /\ analysis' = Some(a)
                  /\ flow_log' = flow_log
                                 \o (IF recheck THEN <<"recheck">> ELSE <<>>)
                                 \o <<"analyze">>
                                 \o (IF executes THEN <<"execute">> ELSE <<>>)
                                 \o (IF appends /\ required_fields = None
                                     THEN <<"exception">> ELSE <<>>)
                  /\ handled' = Append(handled,
                                       [field |-> field, decision |-> a, ok |-> ok])
                  /\ IF appends /\ required_fields = None
                     THEN pc' = "except" /\ UNCHANGED required_fields
                     ELSE /\ pc' = "loop"
                          /\ required_fields' =
                                IF appends
                                THEN Some(Append(required_fields[1], field.name))
                                ELSE required_fields
    /\ UNCHANGED <<config, save_vars, dispatch_vars, scan_vars, fill_vars, behavior_vars, classify_vars, upload_vars, captcha_vars, browser,
                   form_fields, idx, flow_result, session_failed>>

\* lines 291-305: the report, the final screenshot and the wait for Enter.
\* Line 291 reads the name required_fields, bound nowhere: NameError.
Report ==
    /\ pc = "report"
    /\ IF required_fields = None
       THEN /\ pc' = "except"
            /\ flow_log' = Append(flow_log, "exception")
            /\ UNCHANGED session_failed
       ELSE \E ok \in BOOLEAN :
               IF ok
               THEN /\ pc' = "finally"
                    /\ flow_log' = flow_log \o <<"final_screenshot", "confirm">>
                    /\ UNCHANGED session_failed
               ELSE /\ pc' = "except"
                    /\ session_failed' = TRUE
                    /\ flow_log' = Append(flow_log, "exception")
    /\ UNCHANGED <<config, save_vars, dispatch_vars, scan_vars, fill_vars, behavior_vars, classify_vars, upload_vars, captcha_vars, browser,
                   form_fields, idx, analysis, required_fields, handled, flow_result>>

\* the except clause without the raise of line 310
Except_NoReraise ==
    /\ pc = "except"
    /\ \E ok \in BOOLEAN :
          IF ok
          THEN flow_log' = Append(flow_log, "error_screenshot")
               /\ UNCHANGED session_failed
          ELSE flow_log' = Append(flow_log, "error_screenshot_failed")
               /\ session_failed' = TRUE
    /\ pc' = "finally"
    /\ UNCHANGED <<config, save_vars, dispatch_vars, scan_vars, fill_vars, behavior_vars, classify_vars, upload_vars, captcha_vars, browser,
                   form_fields, idx, analysis, required_fields, handled,
                   flow_result>>

\* lines 307-310: log, take the error screenshot (which may itself raise),
\* re-raise
Except ==
    /\ pc = "except"
    /\ \E ok \in BOOLEAN :
          IF ok
          THEN flow_log' = Append(flow_log, "error_screenshot")
               /\ UNCHANGED session_failed
          ELSE flow_log' = Append(flow_log, "error_screenshot_failed")
               /\ session_failed' = TRUE
    /\ flow_result' = "raised"
    /\ pc' = "finally"
    /\ UNCHANGED <<config, save_vars, dispatch_vars, scan_vars, fill_vars, behavior_vars, classify_vars, upload_vars, captcha_vars, browser,
                   form_fields, idx, analysis, required_fields, handled>>

\* line 312: browser.close(), then the function is left
Finally ==
    /\ pc \in {"finally", "finally_raise"}
    /\ browser' = "closed"
    /\ pc' = "exited"
    /\ flow_result' = IF flow_result = "raised" \/ pc = "finally_raise"
                      THEN "raised" ELSE "returned"
    /\ UNCHANGED <<config, save_vars, dispatch_vars, scan_vars, fill_vars, behavior_vars, classify_vars, upload_vars, captcha_vars, form_fields,
                   idx, analysis, required_fields, handled, session_failed, flow_log>>

FlowStep ==
    \/ Launch
    \/ NewContext
    \/ NewPage
    \/ Goto
    \/ WaitLoad
    \/ WarmupBehavior
    \/ WarmupCaptcha
    \/ WarmupCaptchaReturn
    \/ GetFormFields
    \/ LoopNext
    \/ IterBody
    \/ Report
    \/ Except
    \/ Finally

NextFlow == FlowStep \/ (pc = "warmup_captcha_wait" /\ CaptchaStep)

SpecFlow == InitFlow /\ [][NextFlow]_vars

\* C3: when no navigation or browser call fails, the run returns normally
\* after the final screenshot and the wait for confirmation, whatever the form.
C3_RunCompletes ==
    (pc = "exited" /\ ~session_failed /\ ~call_raised) =>
        /\ flow_result = "returned"
        /\ Len(flow_log) >= 2
        /\ SubSeq(flow_log, Len(flow_log) - 1, Len(flow_log))
              = <<"final_screenshot", "confirm">>

\* names of the fields whose decision was ALERT, or FILL/UPLOAD on a required
\* field whose execution failed
RECURSIVE ExpectedMissing(_)
ExpectedMissing(h) ==
    IF h = <<>> THEN <<>>
    ELSE LET e == h[Len(h)]
             act == DecisionAction(e.decision)
             missing == \/ act = Some(Tok.ALERT)
                        \/ /\ act \in {Some(Tok.FILL), Some(Tok.UPLOAD)}
                           /\ e.field.required
                           /\ ~e.ok
         IN ExpectedMissing(SubSeq(h, 1, Len(h) - 1))
            \o (IF missing THEN <<e.field.name>> ELSE <<>>)

\* C4: the missing-required list is empty when the field loop starts and at
\* the completion report holds exactly the names of the ALERT fields and of
\* the required fields whose FILL or UPLOAD failed.
C4_MissingRequiredList ==
    /\ (pc = "loop" /\ idx = 0) => required_fields = Some(<<>>)
    /\ pc = "report" => required_fields = Some(ExpectedMissing(handled))

FlowSteps ==
    {"goto", "networkidle", "human", "captcha", "scan", "recheck", "analyze",
     "execute", "loop_done", "final_screenshot", "confirm", "exception",
     "interrupt", "error_screenshot", "error_screenshot_failed"}

\* C17: no step of a run submits the form, and once the field loop is done
\* (COMPLETE) the browser is closed only after the final screenshot and the
\* wait for the user's confirmation, in this order.
C17_ConfirmBeforeClose ==
    /\ \A i \in DOMAIN flow_log : flow_log[i] \in FlowSteps \ {"submit"}
    /\ (/\ browser = "closed"
        /\ "loop_done" \in Range(flow_log)
        /\ ~session_failed
        /\ ~call_raised)
          => \E i \in 1..(Len(flow_log) - 1) :
                /\ flow_log[i] = "final_screenshot"
                /\ flow_log[i + 1] = "confirm"

\* position in flow_log of the classification of the i-th field, 0 if none
AnalyzeAt(i) ==
    LET at == {p \in DOMAIN flow_log :
                 /\ flow_log[p] = "analyze"
                 /\ Cardinality({q \in 1..p : flow_log[q] = "analyze"}) = i}
    IN IF at = {} THEN 0 ELSE CHOOSE p \in at : TRUE

\* number of CAPTCHA re-checks made after the classification of the i-th
\* field and before that of the next one
RechecksAfter(i) ==
    LET p == AnalyzeAt(i)
        q == AnalyzeAt(i + 1)
        last == IF q = 0 THEN Len(flow_log) ELSE q - 1
    IN IF p = 0 THEN 0
       ELSE Cardinality({k \in (p + 1)..last : flow_log[k] = "recheck"})

\* C18: in a run where no browser call fails, every field of the form whose
\* decision is FILL or UPLOAD, the first and the last included, is followed
\* by one CAPTCHA re-check, and a SKIP or ALERT field by none.
C18_RecheckAfterFillOrUpload ==
    (pc = "exited" /\ form_fields # None /\ ~session_failed /\ ~call_raised) =>
        \A i \in 1..Len(form_fields[1]) :
            RechecksAfter(i) =
                IF DecisionAction(_analyze_field(config, form_fields[1][i]))
                      \in {Some(Tok.FILL), Some(Tok.UPLOAD)}
                THEN 1 ELSE 0

\* an Exception was raised inside the try of line 253
ExceptionRaised == \E i \in DOMAIN flow_log : flow_log[i] = "exception"

\* a KeyboardInterrupt or SystemExit was raised inside the try
InterruptRaised == \E i \in DOMAIN flow_log : flow_log[i] = "interrupt"

\* page.screenshot(path="error_screenshot.png") was called
ErrorScreenshotAttempted ==
    \E i \in DOMAIN flow_log :
        flow_log[i] \in {"error_screenshot", "error_screenshot_failed"}

WarmupOrder == <<"goto", "networkidle", "human", "captcha", "scan">>

IsPhaseStep(e) ==
    e \notin {"exception", "interrupt", "error_screenshot", "error_screenshot_failed"}

CountSteps(e) == Cardinality({p \in DOMAIN flow_log : flow_log[p] = e})

\* C21: the loop handles the fields one at a time in the order of the scan:
\* for each field pacing, then classification, then execution exactly when
\* the decision is FILL or UPLOAD; no field is classified or executed twice,
\* and in a run where no browser call fails every field of the form is handled.
C21_FieldsInOrder ==
    /\ form_fields # None =>
          /\ Len(handled) <= idx
          /\ idx <= Len(form_fields[1])
          /\ CountSteps("analyze") = Len(handled)
          /\ CountSteps("execute") <= CountSteps("analyze")
          /\ \A i \in 1..Len(handled) : handled[i].field = form_fields[1][i]
    /\ (pc = "exited" /\ form_fields # None /\ ~session_failed /\ ~call_raised) =>
          /\ Len(handled) = Len(form_fields[1])
          /\ \A i \in 1..Len(form_fields[1]) :
                LET p == AnalyzeAt(i)
                    executes == DecisionAction(_analyze_field(config, form_fields[1][i]))
                                   \in {Some(Tok.FILL), Some(Tok.UPLOAD)}
                IN /\ p > 1
                   /\ flow_log[p - 1] \in {"human", "recheck"}
                   /\ executes <=> (p < Len(flow_log) /\ flow_log[p + 1] = "execute")

\* C23: handle_captcha always returns a bool, False when one of its page
\* calls raised, and whatever it returns the orchestrator goes on with the
\* next statement, the field scan.
C23_CaptchaNeverAborts ==
    /\ cap_pc = "done" => cap_result \in {Some(TRUE), Some(FALSE)}
    /\ (cap_pc = "done" /\ call_raised) => cap_result = Some(FALSE)
    /\ pc = "warmup_captcha_wait" => flow_result = "running"
    /\ (flow_log # <<>> /\ flow_log[Len(flow_log)] = "captcha")
          => (pc = "get_fields" /\ flow_result = "running")

\* a page call of handle_captcha raised during warmup and the run goes on
C23_Witness ==
    /\ pc = "get_fields"
    /\ call_raised
    /\ flow_log = <<"goto", "networkidle", "human", "captcha">>
    /\ flow_result = "running"

\* the run under the provisos of termination: every browser call returns or
\* raises and every awaited Enter arrives, so a step that can be taken is
\* eventually taken
SpecFlowLive == SpecFlow /\ WF_vars(NextFlow)

\* the missing-required report was issued and the final confirmation given
ReportIssued == \E i \in DOMAIN flow_log : flow_log[i] = "confirm"

\* the field loop has started at most one iteration per field of the scan,
\* and has handled no more fields than it has started iterations for
LoopWithinScan ==
    /\ form_fields = None => idx = 0
    /\ form_fields # None => idx <= Len(form_fields[1])
    /\ Len(handled) <= idx

\* C29: every run ends, either returning with the missing-required report
\* issued or raising with the error screenshot attempted, in both cases with
\* the browser closed; and the field loop never runs more iterations than
\* the scan found fields.
C29_RunEndsCompleteOrError ==
    /\ <>(/\ pc = "exited"
          /\ browser = "closed"
          /\ \/ flow_result = "returned" /\ ReportIssued
             \/ flow_result = "raised" /\ ErrorScreenshotAttempted)
    /\ []LoopWithinScan

\* every run ends, and the loop stays within the scan
C29_RunTerminates ==
    /\ <>(pc = "exited" /\ flow_result \in {"returned", "raised"})
    /\ []LoopWithinScan

--------------------------------------------------------------------------
(* _save_application_details: the history store is one JSON file, read     *)
(* whole, appended to in memory and written back whole.                    *)

MaxHistory == 1
MaxSaves == 2

\* the names bound at module level of test_application_flow.py (lines 1-95)
ModuleNames ==
    {"sync_playwright", "OllamaLLM", "Tool", "ConversationBufferMemory",
     "PromptTemplate", "StrOutputParser", "yaml", "Path", "logging", "os",
     "requests", "json", "Dict", "Any", "AntiBotHandler", "LeverJobAnalyzer",
     "LeverNavigator", "StructuredFormatter", "setup_logging", "logger",
     "check_requirements", "SmartApplicationAgent"}

\* the arguments of a call: job_details, analysis, cover_letter
SaveArgs == [job_details : {"J1", "J2"}, analysis : {"fit"}, cover_letter : {"c1", "c2"}]

\* lines 604-610: the record built from the arguments at time now
ApplicationRecord(args, now) ==
    [job_details |-> args.job_details, analysis |-> args.analysis,
     cover_letter |-> args.cover_letter, timestamp |-> now, status |-> "attempted"]

\* json.dump(list, f): the file holds a JSON array of the records
JsonDump(list) == [kind |-> "array", items |-> list]

\* json.load(f) followed by the append of line 620: the list read, or None
\* when json.load raises (no data, not JSON) or the value read is not a list
JsonLoad(file) == IF file.kind = "array" THEN Some(file.items) ELSE None

\* what the history file can hold before the first call
HistoryFiles ==
    {[kind |-> k, items |-> <<>>] : k \in {"missing", "blank", "invalid", "object"}}
    \cup {JsonDump(list) :
             list \in SeqsUpTo({ApplicationRecord(a, 0) : a \in SaveArgs}, MaxHistory)}

InitSave ==
    /\ config = FullProfile
    /\ DispatchIdle
    /\ ScanIdle
    /\ FillIdle
    /\ BehaviorIdle
    /\ ClassifyIdle
    /\ UploadIdle
    /\ CaptchaIdle
    /\ FlowIdle
    /\ history_file \in HistoryFiles
    /\ history_at_start = history_file
    /\ save_calls = <<>>
    /\ save_errors = 0

\* _save_application_details writing the new record alone, without the read
\* of lines 616-618
SaveApplicationDetails_Overwrite ==
    /\ Len(save_calls) < MaxSaves
    /\ \E args \in SaveArgs, write_ok \in BOOLEAN, dump_ok \in BOOLEAN :
          /\ save_calls' = Append(save_calls, args)
          /\ history_file' = JsonDump(<<ApplicationRecord(args, Len(save_calls) + 1)>>)
          /\ UNCHANGED save_errors
    /\ UNCHANGED <<config, classify_vars, dispatch_vars, scan_vars, fill_vars, behavior_vars, upload_vars,
                   captcha_vars, flow_vars, history_at_start>>

\* lines 601-628, one call.  Line 608 reads the name datetime, which the
\* module binds nowhere: the NameError is caught by line 627 and logged.
\* write_ok: the open for writing of line 622 succeeds (it empties the
\* file); dump_ok: the json.dump of line 623 then writes the whole array.
SaveApplicationDetails ==
    /\ Len(save_calls) < MaxSaves
    /\ \E args \in SaveArgs, write_ok \in BOOLEAN, dump_ok \in BOOLEAN :
          /\ save_calls' = Append(save_calls, args)
          /\ IF "datetime" \notin ModuleNames
             THEN save_errors' = save_errors + 1 /\ UNCHANGED history_file
             ELSE LET record == ApplicationRecord(args, Len(save_calls) + 1)
                      existing_history ==
                          IF history_file.kind = "missing" THEN Some(<<>>)
                          ELSE JsonLoad(history_file)
                  IN IF existing_history = None \/ ~write_ok
                     THEN save_errors' = save_errors + 1 /\ UNCHANGED history_file
                     ELSE IF ~dump_ok
                     THEN /\ save_errors' = save_errors + 1
                          /\ history_file' = [kind |-> "invalid", items |-> <<>>]
                     ELSE /\ history_file' =
                                JsonDump(Append(existing_history[1], record))
                          /\ UNCHANGED save_errors
    /\ UNCHANGED <<config, classify_vars, dispatch_vars, scan_vars, fill_vars, behavior_vars, upload_vars,
                   captcha_vars, flow_vars, history_at_start>>

NextSave == SaveApplicationDetails

SpecSave == InitSave /\ [][NextSave]_vars

\* the arguments a stored record was built from
RecordArgs(r) ==
    [job_details |-> r.job_details, analysis |-> r.analysis,
     cover_letter |-> r.cover_letter]

\* C15: after calls with A and then B on a store holding the records R, the
\* store reads back as R, then A's record, then B's: every call adds exactly
\* one record, and order and content of all records are kept.
C15_AppendKeepsOrder ==
    history_at_start.kind = "array" =>
        /\ history_file.kind = "array"
        /\ Len(history_file.items) = Len(history_at_start.items) + Len(save_calls)
        /\ SubSeq(history_file.items, 1, Len(history_at_start.items))
              = history_at_start.items
        /\ \A i \in 1..Len(save_calls) :
              RecordArgs(history_file.items[Len(history_at_start.items) + i])
                 = save_calls[i]

\* C16: after one call on a missing or empty store, the store holds exactly
\* the one new record.
C16_MissingStoreStartsEmpty ==
    (history_at_start.kind \in {"missing", "blank"} /\ Len(save_calls) = 1) =>
        /\ history_file.kind = "array"
        /\ Len(history_file.items) = 1
        /\ RecordArgs(history_file.items[1]) = save_calls[1]

--------------------------------------------------------------------------
(* AntiBotHandler.add_human_behavior: pointer simulation, scroll           *)
(* simulation, random delay.  hb_ops lists the calls that returned.        *)

\* random.randint(5, 10) pointer steps, random.randint(3, 7) scroll steps
MouseStepsMin == 5
MouseStepsMax == 10
ScrollStepsMin == 3
ScrollStepsMax == 7

\* a flag of behavior_settings: absent, true or false
Flags == {None, Some(TRUE), Some(FALSE)}

InitBehavior ==
    /\ config = FullProfile
    /\ ClassifyIdle
    /\ UploadIdle
    /\ CaptchaIdle
    /\ FlowIdle
    /\ SaveIdle
    /\ DispatchIdle
    /\ ScanIdle
    /\ FillIdle
    /\ behavior_settings \in [mouse_movements : Flags, scroll_behavior : Flags]
    /\ hb_pc = "mouse"
    /\ hb_ops = <<>>

\* the first n calls of a loop that alternates an action and a wait
LoopCalls(action, wait, n) == [i \in 1..n |-> IF i % 2 = 1 THEN action ELSE wait]

\* the pointer simulation without its own try: a failing call is caught only
\* by line 43, past the scroll simulation and the delay
SimulateMouseMovement_NoTry ==
    /\ hb_pc = "mouse"
    /\ IF behavior_settings.mouse_movements = Some(TRUE)
       THEN \E steps \in MouseStepsMin..MouseStepsMax :
            \E returned \in 0..(2 * steps) :
               /\ hb_ops' = hb_ops \o LoopCalls("move", "move_wait", returned)
               /\ hb_pc' = IF returned < 2 * steps THEN "done" ELSE "scroll"
       ELSE hb_pc' = "scroll" /\ UNCHANGED hb_ops
    /\ UNCHANGED <<config, save_vars, dispatch_vars, scan_vars, fill_vars, classify_vars, upload_vars, captcha_vars,
                   flow_vars, behavior_settings>>

\* lines 33-34 and 101-117: when the flag is set, steps times page.mouse.move
\* then page.wait_for_timeout; the call that raises (if any) ends the loop in
\* the except of line 116; returned counts the calls that returned before
SimulateMouseMovement ==
    /\ hb_pc = "mouse"
    /\ IF behavior_settings.mouse_movements = Some(TRUE)
       THEN \E steps \in MouseStepsMin..MouseStepsMax :
            \E returned \in 0..(2 * steps) :
               hb_ops' = hb_ops \o LoopCalls("move", "move_wait", returned)
       ELSE UNCHANGED hb_ops
    /\ hb_pc' = "scroll"
    /\ UNCHANGED <<config, save_vars, dispatch_vars, scan_vars, fill_vars, classify_vars, upload_vars, captcha_vars,
                   flow_vars, behavior_settings>>

\* lines 37-38 and 119-130: when the flag is set, scroll_steps times
\* page.mouse.wheel then page.wait_for_timeout, under the except of line 129
SimulateScrolling ==
    /\ hb_pc = "scroll"
    /\ IF behavior_settings.scroll_behavior = Some(TRUE)
       THEN \E scroll_steps \in ScrollStepsMin..ScrollStepsMax :
            \E returned \in 0..(2 * scroll_steps) :
               hb_ops' = hb_ops \o LoopCalls("wheel", "wheel_wait", returned)
       ELSE UNCHANGED hb_ops
    /\ hb_pc' = "delay"
    /\ UNCHANGED <<config, save_vars, dispatch_vars, scan_vars, fill_vars, classify_vars, upload_vars, captcha_vars,
                   flow_vars, behavior_settings>>

\* lines 41 and 132-136: time.sleep of a random delay, then the return
AddRandomDelay ==
    /\ hb_pc = "delay"
    /\ hb_ops' = Append(hb_ops, "sleep")
    /\ hb_pc' = "done"
    /\ UNCHANGED <<config, save_vars, dispatch_vars, scan_vars, fill_vars, classify_vars, upload_vars, captcha_vars,
                   flow_vars, behavior_settings>>

NextBehavior ==
    \/ SimulateMouseMovement
    \/ SimulateScrolling
    \/ AddRandomDelay

SpecBehavior == InitBehavior /\ [][NextBehavior]_vars

\* C24: add_human_behavior always reaches its return: pointer calls come
\* before wheel calls, and the call ends with exactly one sleep, also when a
\* pointer or wheel call failed part-way; a simulation whose flag is not set makes no
\* pointer or wheel call.
C24_PointerScrollDelay ==
    /\ hb_pc \in {"mouse", "scroll", "delay", "done"}
    /\ hb_pc \in {"mouse", "scroll"} => "sleep" \notin Range(hb_ops)
    /\ \A i, j \in DOMAIN hb_ops :
          (i < j /\ hb_ops[i] \in {"wheel", "wheel_wait"})
             => hb_ops[j] \notin {"move", "move_wait"}
    /\ \A i \in DOMAIN hb_ops :
          hb_ops[i] = "sleep" => (i = Len(hb_ops) /\ hb_pc = "done")
    /\ hb_pc = "done" => (hb_ops # <<>> /\ hb_ops[Len(hb_ops)] = "sleep")
    /\ behavior_settings.mouse_movements # Some(TRUE)
          => \A i \in DOMAIN hb_ops : hb_ops[i] \notin {"move", "move_wait"}
    /\ behavior_settings.scroll_behavior # Some(TRUE)
          => \A i \in DOMAIN hb_ops : hb_ops[i] \notin {"wheel", "wheel_wait"}

\* both simulations on, the pointer one failing at its fourth call and the
\* scroll one at its second
C24_Witness ==
    /\ hb_pc = "done"
    /\ behavior_settings = [mouse_movements |-> Some(TRUE), scroll_behavior |-> Some(TRUE)]
    /\ hb_ops = <<"move", "move_wait", "move", "wheel", "sleep">>


--------------------------------------------------------------------------
(* _fill_field (lines 451-480), called on its own with a field and a       *)
(* decision text.  fill_ops holds the page calls it issued, each with      *)
(* whether the call raised.                                                *)

\* the values for which a checkbox is checked (line 468), and other values a
\* decision text can carry for one
Check == [
    true |-> <<"t","r","u","e">>,
    yes |-> <<"y","e","s">>,
    one |-> <<"1">>,
    Yes |-> <<"Y","e","s">>,
    no |-> <<"n","o">>]
CheckValues == {Check.true, Check.yes, Check.one}

FillTypes == {None, Some(Type.text), Some(Type.email), Some(Type.select), Some(Type.Select),
              Some(Type.checkbox), Some(Type.radio)}
FillFields == [name : {Some(Name.full_name), Some(Name.cover_letter), Some(Name.phone)},
               type : FillTypes, required : {TRUE}, selector : {<<"#","f">>}]

\* the decision texts _fill_field is called with: the decision _analyze_field
\* makes for the field, FILL decisions carrying a checkbox value, and a
\* decision that carries no value
FillAnalyses(cfg, fi) ==
    {_analyze_field(cfg, [name |-> fi.name, type |-> fi.type, required |-> fi.required])}
    \cup {Text.FillPrefix \o v \o Text.RequiredSuffix :
              v \in {Check.true, Check.yes, Check.one, Check.Yes, Check.no}}
    \cup {Tok.action_fill}

InitFill ==
    /\ config \in {FullProfile, EmptyProfile}
    /\ ClassifyIdle
    /\ UploadIdle
    /\ CaptchaIdle
    /\ FlowIdle
    /\ SaveIdle
    /\ DispatchIdle
    /\ ScanIdle
    /\ BehaviorIdle
    /\ fill_field \in FillFields
    /\ fill_analysis \in FillAnalyses(config, fill_field)
    /\ fill_ops = <<>>
    /\ fill_result = None

\* the page call _fill_field makes for a control of (lower-cased) type t and
\* the parsed value, <<>> if it makes none (lines 464-474)
FillCall(t, selector, value) ==
    IF t = Type.select
    THEN <<[op |-> "select_option", selector |-> selector, value |-> Some(value)]>>
    ELSE IF t = Type.checkbox
      THEN IF Lower(value) \in CheckValues
           THEN <<[op |-> "check", selector |-> selector, value |-> None]>>
           ELSE <<>>
    ELSE IF t = Type.radio
      THEN <<[op |-> "check", selector |-> selector, value |-> None]>>
    ELSE <<[op |-> "fill", selector |-> selector, value |-> Some(value)]>>

\* one call of _fill_field
FillField ==
    /\ fill_result = None
    /\ fill_analysis # <<>>
    /\ \E raises \in BOOLEAN :
         IF ~Contains(Tok.value_tag, fill_analysis)
         THEN \* line 453-455
              /\ ~raises
              /\ fill_result' = Some(FALSE)
              /\ UNCHANGED fill_ops
         ELSE LET value == DecisionValue(fill_analysis)[1]
                  selector == fill_field.selector
              IN IF fill_field.type = None
                 THEN \* line 462: None.lower() raises, caught at line 478
                      /\ ~raises
                      /\ fill_result' = Some(FALSE)
                      /\ UNCHANGED fill_ops
                 ELSE LET field_type == Lower(fill_field.type[1])
                          call == FillCall(field_type, selector, value)
                      IN IF call = <<>>
                         THEN /\ ~raises
                              /\ fill_result' = Some(TRUE)
                              /\ UNCHANGED fill_ops
                         ELSE /\ fill_ops' = <<[call |-> call[1], raised |-> raises]>>
                              /\ fill_result' = Some(~raises)
    /\ UNCHANGED <<config, save_vars, dispatch_vars, scan_vars, behavior_vars, classify_vars, upload_vars, captcha_vars,
                   flow_vars, fill_field, fill_analysis>>

NextFill == FillField

SpecFill == InitFill /\ [][NextFill]_vars

\* the decision text is a FILL decision: it names the action and carries a value
FillDecision ==
    Contains(Tok.action_fill, fill_analysis) /\ Contains(Tok.value_tag, fill_analysis)

\* the page call the dispatch rule names for a control type and a value:
\* "none" for a checkbox whose value is not one of true, yes, 1
DispatchRule(type, value) ==
    IF type = None THEN "fill"
    ELSE IF Lower(type[1]) = Type.select THEN "select_option"
    ELSE IF Lower(type[1]) = Type.checkbox
      THEN IF Lower(value) \in CheckValues THEN "check" ELSE "none"
    ELSE IF Lower(type[1]) = Type.radio THEN "check"
    ELSE "fill"

\* C25: for a FILL decision _fill_field issues exactly the page call the
\* dispatch rule names for the field's type (a control without a type
\* attribute and an unrecognised type get a text-fill, a checkbox whose value
\* is not true/yes/1 gets no call), and it returns success exactly when the
\* issued call, if any, did not fail.
C25_DispatchByType ==
    (fill_result # None /\ FillDecision) =>
        LET rule == DispatchRule(fill_field.type, DecisionValue(fill_analysis)[1])
        IN IF rule = "none"
           THEN fill_ops = <<>> /\ fill_result = Some(TRUE)
           ELSE /\ Len(fill_ops) = 1
                /\ fill_ops[1].call.op = rule
                /\ fill_ops[1].call.selector = fill_field.selector
                /\ fill_result = Some(~fill_ops[1].raised)

\* the dispatch rule holds for every control that has a type attribute
C25_DispatchByTypeWhenTyped ==
    fill_field.type # None => C25_DispatchByType

\* the value _get_field_value_from_config resolves for the field of the call
ResolvedValue == _get_field_value_from_config(config, fill_field.name, fill_field.type)

\* C30: when _fill_field is given the FILL decision _analyze_field made for
\* the field, the value it extracts from the text, and the value of every
\* page call it issues with one, is the value _get_field_value_from_config
\* resolved for that field.
C30_ValueRoundTrip ==
    (/\ fill_result # None
     /\ fill_analysis = _analyze_field(config, [name |-> fill_field.name,
                                                type |-> fill_field.type,
                                                required |-> fill_field.required])
     /\ FillDecision) =>
        /\ DecisionValue(fill_analysis) = ResolvedValue
        /\ \A i \in 1..Len(fill_ops) :
              fill_ops[i].call.value # None => fill_ops[i].call.value = ResolvedValue

\* the round trip is lossless for a value of one line without outer whitespace
C30_SingleLineRoundTrip ==
    (ResolvedValue # None
     /\ ~Contains(Tok.NL, ResolvedValue[1])
     /\ Strip(ResolvedValue[1]) = ResolvedValue[1]) => C30_ValueRoundTrip

--------------------------------------------------------------------------
(* _get_form_fields (lines 314-341) and _generate_selector (lines 343-375).*)
(* A control is what the page holds for one element matched by the query   *)
(* of line 319: its tag name, its attributes (None for an absent one), and *)
(* which of the calls made on it raises: "field" a get_attribute of lines  *)
(* 325-328, "selector" a get_attribute of lines 348-351, "evaluate" the    *)
(* evaluate of line 365, "none" no call.                                   *)

\* the pieces of the selectors of lines 356, 358, 362, 367 and 375, and the
\* tag names and attribute values of the controls used as inputs
Sel == [
    hash |-> <<"#">>,
    name_open |-> <<"[","n","a","m","e","=","'">>,
    type_open |-> <<"[","t","y","p","e","=","'">>,
    close |-> <<"'","]">>,
    dot |-> <<".">>,
    input |-> <<"i","n","p","u","t">>,
    INPUT |-> <<"I","N","P","U","T">>,
    SELECT |-> <<"S","E","L","E","C","T">>,
    id1 |-> <<"a","1">>,
    blanks |-> <<" "," ">>,
    classes |-> <<" ","b","t","n"," "," ","l","g"," ">>]

\* str.split(): the maximal runs of non-whitespace characters
RECURSIVE SplitWhitespace(_)
SplitWhitespace(s) ==
    LET t == Strip(s)
        ws == {i \in 1..Len(t) : t[i] \in Whitespace}
        k == IF ws = {} THEN Len(t) + 1 ELSE CHOOSE i \in ws : \A j \in ws : i <= j
    IN IF t = <<>> THEN <<>>
       ELSE <<SubSeq(t, 1, k - 1)>> \o SplitWhitespace(SubSeq(t, k, Len(t)))

Failures == {"none", "field", "selector", "evaluate"}

\* every combination of tag and attributes, for a page of one control
AllControls ==
    [tag : {Sel.INPUT, Sel.SELECT},
     id : {None, Some(<<>>), Some(Sel.id1)},
     name : {None, Some(<<>>), Some(Name.email)},
     class : {None, Some(<<>>), Some(Sel.blanks), Some(Sel.classes)},
     type : {None, Some(<<>>), Some(Type.text)},
     required : {None},
     placeholder : {None},
     fails : Failures]

\* the controls of the pages of several controls
BareInput == [tag |-> Sel.INPUT, id |-> None, name |-> None, class |-> None,
              type |-> Some(Type.text), required |-> None, placeholder |-> None,
              fails |-> "none"]
ScanControls ==
    {[BareInput EXCEPT !.id = Some(Sel.id1), !.name = Some(Name.email),
                       !.required = Some(<<>>)],
     [BareInput EXCEPT !.tag = Sel.SELECT, !.name = Some(Name.phone), !.type = None],
     [BareInput EXCEPT !.class = Some(Sel.classes), !.fails = "evaluate"]}
    \cup {[BareInput EXCEPT !.fails = f] : f \in Failures \ {"none"}}

MaxControls == 3

InitScan ==
    /\ config = FullProfile
    /\ ClassifyIdle
    /\ UploadIdle
    /\ CaptchaIdle
    /\ FlowIdle
    /\ SaveIdle
    /\ DispatchIdle
    /\ BehaviorIdle
    /\ FillIdle
    /\ dom \in {<<c>> : c \in AllControls} \cup SeqsUpTo(ScanControls, MaxControls)
    /\ scan_pc = "query"
    /\ scan_i = 0
    /\ scan_queried = FALSE
    /\ scan_fields = <<>>
    /\ scan_sources = <<>>
    /\ scan_result = None

\* _generate_selector with the name test of line 357 ahead of the id test
_generate_selector_NameFirst(element) ==
    IF element.fails = "selector" THEN Sel.input
    ELSE IF Truthy(element.name) THEN Sel.name_open \o element.name[1] \o Sel.close
    ELSE IF Truthy(element.id) THEN Sel.hash \o element.id[1]
    ELSE IF Truthy(element.class) /\ SplitWhitespace(element.class[1]) # <<>>
      THEN Sel.dot \o Join(Sel.dot, SplitWhitespace(element.class[1]))
    ELSE IF element.fails = "evaluate" THEN Sel.input
    ELSE LET tag_name == Lower(element.tag)
         IN IF Truthy(element.type)
            THEN tag_name \o Sel.type_open \o element.type[1] \o Sel.close
            ELSE tag_name

_generate_selector(element) ==
    IF element.fails = "selector" THEN Sel.input          \* lines 373-375
    ELSE IF Truthy(element.id) THEN Sel.hash \o element.id[1]
    ELSE IF Truthy(element.name) THEN Sel.name_open \o element.name[1] \o Sel.close
    ELSE IF Truthy(element.class) /\ SplitWhitespace(element.class[1]) # <<>>
      THEN Sel.dot \o Join(Sel.dot, SplitWhitespace(element.class[1]))
    ELSE IF element.fails = "evaluate" THEN Sel.input     \* lines 373-375
    ELSE LET tag_name == Lower(element.tag)
         IN IF Truthy(element.type)
            THEN tag_name \o Sel.type_open \o element.type[1] \o Sel.close
            ELSE tag_name

\* line 319: the page query returns the controls, or raises (lines 339-341)
ScanQuery ==
    /\ scan_pc = "query"
    /\ \E ok \in BOOLEAN :
         IF ok
         THEN /\ scan_pc' = "loop"
              /\ scan_i' = 1
              /\ scan_queried' = TRUE
              /\ UNCHANGED scan_result
         ELSE /\ scan_pc' = "returned"
              /\ scan_result' = Some(scan_fields)
              /\ UNCHANGED <<scan_i, scan_queried>>
    /\ UNCHANGED <<config, save_vars, dispatch_vars, fill_vars, behavior_vars, classify_vars, upload_vars,
                   captcha_vars, flow_vars, dom, scan_fields, scan_sources>>

\* one iteration of the loop of lines 322-335
ScanControl ==
    /\ scan_pc = "loop"
    /\ scan_i <= Len(dom)
    /\ LET input_element == dom[scan_i]
       IN IF input_element.fails = "field"
          THEN UNCHANGED <<scan_fields, scan_sources>>    \* lines 333-335
          ELSE /\ scan_fields' = Append(scan_fields,
                      [name |-> input_element.name,
                       type |-> input_element.type,
                       required |-> input_element.required # None,
                       placeholder |-> input_element.placeholder,
                       selector |-> _generate_selector(input_element)])
               /\ scan_sources' = Append(scan_sources, scan_i)
    /\ scan_i' = scan_i + 1
    /\ UNCHANGED <<config, save_vars, dispatch_vars, fill_vars, behavior_vars, classify_vars, upload_vars,
                   captcha_vars, flow_vars, dom, scan_pc, scan_queried, scan_result>>

\* line 337
ScanReturn ==
    /\ scan_pc = "loop"
    /\ scan_i > Len(dom)
    /\ scan_pc' = "returned"
    /\ scan_result' = Some(scan_fields)
    /\ UNCHANGED <<config, save_vars, dispatch_vars, fill_vars, behavior_vars, classify_vars, upload_vars,
                   captcha_vars, flow_vars, dom, scan_i, scan_queried, scan_fields,
                   scan_sources>>

NextScan == ScanQuery \/ ScanControl \/ ScanReturn

SpecScan == InitScan /\ [][NextScan]_vars

\* the indices of the controls of the page whose calls named in skip do not
\* raise, in document order
KeptControls(skip) ==
    SelectSeq([i \in 1..Len(dom) |-> i], LAMBDA i : dom[i].fails \notin skip)

\* the scan has returned the controls named by kept, in that order, each with
\* the name and type of its control
ReturnedExactly(kept) ==
    /\ scan_result # None
    /\ scan_sources = kept
    /\ Len(scan_result[1]) = Len(kept)
    /\ \A k \in 1..Len(kept) :
          /\ scan_result[1][k].name = dom[kept[k]].name
          /\ scan_result[1][k].type = dom[kept[k]].type

\* C26: _get_form_fields always returns (it never raises); when the page
\* query fails it returns the fields collected so far, and otherwise it
\* returns, in document order, exactly the controls none of whose attribute
\* reads threw: a control with a throwing attribute read is skipped and the
\* controls before and after it are kept in their relative order.
C26_ScanSkipsFailingControls ==
    scan_pc = "returned" =>
        IF scan_queried
        THEN ReturnedExactly(KeptControls({"field", "selector"}))
        ELSE scan_result = Some(<<>>)

\* the same with only the attribute reads of lines 325-328 counted
C26_ScanSkipsFailedExtraction ==
    scan_pc = "returned" =>
        IF scan_queried
        THEN ReturnedExactly(KeptControls({"field"}))
        ELSE scan_result = Some(<<>>)

\* an attribute of a control is present and non-empty
HasAttr(v) == v # None /\ v[1] # <<>>
\* a class attribute holds at least one class name
HasClassNames(v) == v # None /\ \E i \in 1..Len(v[1]) : v[1][i] \notin Whitespace

\* C27: the selector of a returned control whose reads did not fail is the
\* id form when the id is present and non-empty; else the name form when the
\* name is; else the class form when the class attribute holds a class name;
\* else tag+type when the type is present and non-empty; else the bare tag.
C27_SelectorPrecedence ==
    \A k \in 1..Len(scan_fields) :
        LET c == dom[scan_sources[k]]
            selector == scan_fields[k].selector
        IN c.fails # "selector" =>
            IF HasAttr(c.id) THEN selector = Sel.hash \o c.id[1]
            ELSE IF HasAttr(c.name) THEN selector = Sel.name_open \o c.name[1] \o Sel.close
            ELSE IF HasClassNames(c.class)
              THEN selector = Sel.dot \o Join(Sel.dot, SplitWhitespace(c.class[1]))
            ELSE c.fails = "none" =>
                IF HasAttr(c.type)
                THEN selector = Lower(c.tag) \o Sel.type_open \o c.type[1] \o Sel.close
                ELSE selector = Lower(c.tag)

\* a control with an empty id, a name, class names and a type was returned
\* with the name form, and a control whose class attribute is blank with
\* tag+type
C27_Witness ==
    /\ scan_pc = "returned"
    /\ Len(scan_fields) = 1
    /\ LET c == dom[scan_sources[1]]
       IN /\ c.fails = "none"
          /\ \/ /\ c.id = Some(<<>>)
                /\ HasAttr(c.name) /\ HasClassNames(c.class) /\ HasAttr(c.type)
                /\ scan_fields[1].selector = Sel.name_open \o Name.email \o Sel.close
             \/ /\ c.id = None /\ c.name = None /\ c.class = Some(Sel.blanks)
                /\ scan_fields[1].selector
                       = Sel.input \o Sel.type_open \o Type.text \o Sel.close

--------------------------------------------------------------------------
(* The dispatch of test_application_flow (lines 276-288): one field of the *)
(* scan is classified and the branch for its decision is taken.  d_log     *)
(* holds, per field taken, the decision, the handlers called, the page     *)
(* calls issued and the control that received the resume file (0: none).   *)

\* a profile whose entries are the words of other actions
TrickyProfile ==
    [FullProfile EXCEPT
        !.personal_information.name = Some(Tok.action_upload),
        !.personal_information.surname = Some(Tok.action_alert),
        !.personal_information.email = Some(Tok.action_tag \o Tok.SP \o Tok.SKIP),
        !.personal_information.phone = Some(Tok.action_upload \o Tok.NL \o Tok.action_alert)]

Pdf == <<".","p","d","f">>

\* an input control of the page: the attributes of BareInput and accept
DispatchInput(name, type, required, accept) ==
    [tag |-> Sel.INPUT, id |-> None, name |-> name, class |-> None, type |-> type,
     required |-> IF required THEN Some(<<>>) ELSE None, placeholder |-> None,
     fails |-> "none", accept |-> accept]

DispatchControls ==
    {DispatchInput(Some(n), Some(Type.file), FALSE, None) :
        n \in {Name.Resume, Name.CV, Key.resume}}
    \cup {DispatchInput(Some(Name.attachment), Some(Type.file), FALSE, Some(Pdf)),
          DispatchInput(Some(Name.CV), Some(Type.file), TRUE, None)}
    \cup {DispatchInput(Some(n), Some(Type.text), TRUE, None) :
              n \in {Name.full_name, Name.phone, Name.referral_source}}
    \cup {DispatchInput(Some(Key.resume), Some(Type.text), FALSE, None),
          DispatchInput(Some(Name.email), Some(Type.hidden), TRUE, None)}

MaxPageControls == 2

InitDispatch ==
    /\ config \in {FullProfile, TrickyProfile}
    /\ ClassifyIdle
    /\ UploadIdle
    /\ CaptchaIdle
    /\ FlowIdle
    /\ SaveIdle
    /\ BehaviorIdle
    /\ FillIdle
    /\ ScanIdle
    /\ d_page \in SeqsUpTo(DispatchControls, MaxPageControls)
    /\ d_pc = "loop"
    /\ d_i = 0
    /\ d_log = <<>>

\* the field dict _get_form_fields builds for a control (lines 324-330)
FieldOf(input_element) ==
    [name |-> input_element.name,
     type |-> input_element.type,
     required |-> input_element.required # None,
     placeholder |-> input_element.placeholder,
     selector |-> _generate_selector(input_element)]

\* an input element matches a selector of resume_selectors (lines 400-406)
MatchesInput(selector, c) ==
    LET is_file == c.type = Some(Type.file)
        name_has(sub) == c.name # None /\ Contains(sub, Lower(c.name[1]))
    IN CASE selector = resume_selectors[1] -> c.name = Some(Key.resume)
         [] selector = resume_selectors[2] -> is_file /\ name_has(Key.resume)
         [] selector = resume_selectors[3] -> is_file /\ c.accept = Some(Pdf)
         [] selector = resume_selectors[4] -> is_file /\ name_has(Key.cv)
         [] selector = resume_selectors[5] -> is_file
         [] OTHER -> FALSE

\* page.locator(selector).first: the index of the first control of the page
\* that matches, 0 when count() is 0
FirstMatch(selector, page_controls) ==
    LET hits == {k \in 1..Len(page_controls) : MatchesInput(selector, page_controls[k])}
    IN IF hits = {} THEN 0 ELSE CHOOSE k \in hits : \A j \in hits : k <= j

\* _try_upload_file (lines 421-434) on a page whose calls return: the control
\* set_input_files attaches the file to, 0 when the selectors are exhausted.
\* strict: set_input_files raises on an element that is no file input.
RECURSIVE UploadTarget(_, _, _)
UploadTarget(page_controls, sels, strict) ==
    IF sels = <<>> THEN 0
    ELSE LET k == FirstMatch(Head(sels), page_controls)
         IN IF k # 0 /\ (page_controls[k].type = Some(Type.file) \/ ~strict)
            THEN k
            ELSE UploadTarget(page_controls, Tail(sels), strict)

\* the tests of lines 279-288 with the upload test ahead of the fill test
Dispatch_UploadFirst(text) ==
    IF Contains(Tok.action_upload, text) THEN "upload"
    ELSE IF Contains(Tok.action_fill, text) THEN "fill"
    ELSE IF Contains(Tok.action_alert, text) THEN "alert"
    ELSE "none"

\* the branch the substring tests of lines 279, 283 and 287 select
Dispatch(text) ==
    IF Contains(Tok.action_fill, text) THEN "fill"
    ELSE IF Contains(Tok.action_upload, text) THEN "upload"
    ELSE IF Contains(Tok.action_alert, text) THEN "alert"
    ELSE "none"

\* lines 276-288 for the next field.  page_ok: the page calls of the handler
\* return.  The name required_fields is bound nowhere: an append to it
\* raises NameError, which leaves the loop.
DispatchField ==
    /\ d_pc = "loop"
    /\ d_i < Len(d_page)
    /\ \E page_ok \in BOOLEAN, strict \in BOOLEAN :
         \E field \in {FieldOf(d_page[d_i + 1])} :
         \E text \in {_analyze_field(config, [name |-> field.name, type |-> field.type,
                                               required |-> field.required])} :
         \E branch \in {Dispatch(text)} :
         LET fill_call == IF field.type = None \/ ~Contains(Tok.value_tag, text)
                          THEN <<>>
                          ELSE FillCall(Lower(field.type[1]), field.selector,
                                        DecisionValue(text)[1])
             fill_ok == /\ field.type # None
                        /\ Contains(Tok.value_tag, text)
                        /\ (fill_call = <<>> \/ page_ok)
             target == IF page_ok THEN UploadTarget(d_page, resume_selectors, strict)
                       ELSE 0
             handler_ok == IF branch = "fill" THEN fill_ok ELSE target # 0
             appends == IF branch \in {"fill", "upload"} THEN ~handler_ok /\ field.required
                        ELSE branch = "alert"
         IN /\ d_log' = Append(d_log,
                   [i |-> d_i + 1,
                    analysis |-> text,
                    calls |-> (IF branch = "fill" THEN <<"_fill_field">>
                               ELSE IF branch = "upload" THEN <<"_upload_resume">>
                               ELSE <<>>)
                              \o (IF appends THEN <<"required_fields.append">> ELSE <<>>),
                    ops |-> IF branch = "fill" THEN [k \in 1..Len(fill_call) |-> fill_call[k].op]
                            ELSE IF branch = "upload" /\ target # 0
                            THEN <<"set_input_files">>
                            ELSE <<>>,
                    target |-> IF branch = "upload" THEN target ELSE 0])
            /\ d_pc' = IF appends THEN "raised" ELSE "loop"
    /\ d_i' = d_i + 1
    /\ UNCHANGED <<config, save_vars, scan_vars, fill_vars, behavior_vars, classify_vars,
                   upload_vars, captcha_vars, flow_vars, d_page>>

\* the for statement of line 268 finds no further field
DispatchDone ==
    /\ d_pc = "loop"
    /\ d_i = Len(d_page)
    /\ d_pc' = "done"
    /\ UNCHANGED <<config, save_vars, scan_vars, fill_vars, behavior_vars, classify_vars,
                   upload_vars, captcha_vars, flow_vars, d_page, d_i, d_log>>

NextDispatch == DispatchField \/ DispatchDone

SpecDispatch == InitDispatch /\ [][NextDispatch]_vars

\* the branch that matches the action a decision names
BranchOf(action) ==
    IF action = Some(Tok.FILL) THEN "fill"
    ELSE IF action = Some(Tok.UPLOAD) THEN "upload"
    ELSE IF action = Some(Tok.ALERT) THEN "alert"
    ELSE "none"

\* the text of a decision holds the words of an action other than its own
NamesOtherAction(text) ==
    \E a \in Actions :
        /\ Some(a) # DecisionAction(text)
        /\ Contains(Tok.action_tag \o Tok.SP \o a, text)

\* C31: for every field taken, the handlers called are those of the branch
\* that matches the action of its decision: a FILL decision calls
\* _fill_field, an UPLOAD decision _upload_resume, an ALERT decision only
\* records the field as missing, a SKIP decision calls nothing; a SKIP or
\* ALERT decision issues no page call, and only an UPLOAD decision attaches
\* a file.
C31_BranchMatchesAction ==
    \A k \in 1..Len(d_log) :
        \E action \in {DecisionAction(d_log[k].analysis)} :
        LET e == d_log[k]
            branch == BranchOf(action)
        IN /\ action # None
           /\ action[1] \in Actions
           /\ branch = "fill" => e.calls # <<>> /\ e.calls[1] = "_fill_field"
           /\ branch = "upload" => e.calls # <<>> /\ e.calls[1] = "_upload_resume"
           /\ branch = "alert" => e.calls = <<"required_fields.append">> /\ e.ops = <<>>
           /\ branch = "none" => e.calls = <<>> /\ e.ops = <<>>
           /\ branch # "upload" => e.target = 0 /\ "set_input_files" \notin Range(e.ops)
           /\ branch # "fill" => e.ops \in {<<>>, <<"set_input_files">>}

\* a FILL decision whose value holds the words of the UPLOAD and ALERT
\* actions was dispatched to _fill_field and filled the control
C31_Witness ==
    \E k \in 1..Len(d_log) :
        /\ DecisionAction(d_log[k].analysis) = Some(Tok.FILL)
        /\ Contains(Tok.action_upload, d_log[k].analysis)
        /\ Contains(Tok.action_alert, d_log[k].analysis)
        /\ NamesOtherAction(d_log[k].analysis)
        /\ d_log[k].calls = <<"_fill_field">>
        /\ d_log[k].ops = <<"fill">>

\* C32: the control that receives the resume file for an UPLOAD decision is
\* the control the decision was made for.
C32_UploadToOwnControl ==
    \A k \in 1..Len(d_log) :
        (DecisionAction(d_log[k].analysis) = Some(Tok.UPLOAD) /\ d_log[k].target # 0)
            => d_log[k].target = d_log[k].i

\* the controls of the page that some selector of resume_selectors matches
UploadCandidates ==
    {k \in 1..Len(d_page) :
        \E n \in 1..Len(resume_selectors) : MatchesInput(resume_selectors[n], d_page[k])}

\* on a page with a single control the upload selectors can match, the file
\* goes to the control of the UPLOAD decision
C32_SingleCandidateOwnControl ==
    Cardinality(UploadCandidates) <= 1 => C32_UploadToOwnControl
====
